---- MODULE Spec2Model ----
(***************************************************************************)
(* A model of chpp/api_parser/chre_api_to_chpp.py: the generator that      *)
(* turns annotated CHRE structures into packed CHPP declarations and       *)
(* conversion code, together with the behaviour of the C code it emits.    *)
(*                                                                         *)
(* Type names are the numbers 1..NumTypes; Python's sorted() over names is *)
(* the numeric order.  What the generator reads of a name (does it start   *)
(* with 'chre', is the service name next) is carried in defs[t].name.      *)
(* Generated text is kept as records, one per emitted construct, holding   *)
(* what the emitted C statement refers to.                                 *)
(***************************************************************************)
EXTENDS Integers, Sequences, FiniteSets, TLC

VARIABLES input, host, structs_and_unions, keys, pc, err, log, header_file,
          conversion_file, call, twin, sort

vars == <<input, host, structs_and_unions, keys, pc, err, log, header_file,
          conversion_file, call, twin, sort>>

\* ---------------------------------------------------------------- bounds
NumTypes == 3
MaxEdges == 2
MaxRoots == 2

Types == 1..NumTypes

\* ------------------------------------------------------------- utilities
RECURSIVE SortedSeq(_)
\* Python's sorted() over a set of names.
SortedSeq(S) ==
  IF S = {} THEN <<>>
  ELSE LET m == CHOOSE x \in S : \A y \in S : x <= y
       IN <<m>> \o SortedSeq(S \ {m})

Range(s) == {s[i] : i \in DOMAIN s}

\* A local variable: rest runs on the value assigned to it.
With(v, rest(_)) == rest(v)

NoErr == [kind |-> "none", type |-> 0, field |-> ""]
Error(k, t, f) == [kind |-> k, type |-> t, field |-> f]

\* ------------------------------------------------------- the C type model
\* pyclibrary's Type: a type_spec and a tuple of declarators.  kw is the
\* 'struct '/'union ' keyword of the type_spec ("" for a plain type), ref
\* the type name after it, base the plain type_spec.
PlainSpec(b) == [kw |-> "", ref |-> 0, base |-> b]
NestedSpec(k, t) == [kw |-> k, ref |-> t, base |-> ""]
NoDecl == <<>>
PtrDecl == <<[d |-> "*", n |-> 0]>>
ArrDecl(n) == <<[d |-> "[]", n |-> n]>>

Member(nm, spec, decl) == [name |-> nm, type |-> [type_spec |-> spec, declarators |-> decl]]

\* The annotation records of chre_api_annotations.json.
RewriteType(f, ov) == [field |-> f, annotation |-> "rewrite_type", type_override |-> ov]
FixedValue(f, v) == [field |-> f, annotation |-> "fixed_value", value |-> v]
VarLenArray(f, lf) == [field |-> f, annotation |-> "var_len_array", length_field |-> lf]
UnionVariant(f, disc, mp) ==
  [field |-> f, annotation |-> "union_variant", discriminator |-> disc, mapping |-> mp]
EnumAnn(f) == [field |-> f, annotation |-> "enum"]
RenameType == [field |-> ".", annotation |-> "rename_type", type_override |-> "Renamed"]

GoodName == [chre |-> TRUE, svc |-> TRUE]

\* ------------------------------------------------------ ApiParser (parse)
RECURSIVE AnnotationsFrom(_, _, _)
\* _parse_annotations: annotations[type][field], the annotations of every
\* struct_info entry for the type, in the order they appear in the JSON.
AnnotationsFrom(infos, t, f) ==
  IF infos = <<>> THEN <<>>
  ELSE LET here == IF Head(infos).name = t
                   THEN SelectSeq(Head(infos).annotations, LAMBDA a : a.field = f)
                   ELSE <<>>
       IN here \o AnnotationsFrom(Tail(infos), t, f)

Annotations(t, f) == AnnotationsFrom(input.struct_info, t, f)

HasAnnotation(anns, k) == \E i \in DOMAIN anns : anns[i].annotation = k

\* One iteration of the member loop of _parse_structs_and_unions.
MemberInfo(t, m) ==
  LET nested == m.type.type_spec.kw \in {"struct", "union"}
  IN [name |-> m.name,
      type |-> m.type,
      annotations |-> Annotations(t, m.name),
      is_nested_type |-> nested,
      nested_type_name |-> IF nested THEN m.type.type_spec.ref ELSE 0]

\* The entry built for one type before the linkage passes.
NewEntry(t) ==
  LET defs == input.defs[t]
      infos == [i \in DOMAIN defs.members |-> MemberInfo(t, defs.members[i])]
  IN [appears_in |-> {},
      dependencies |-> {infos[i].nested_type_name : i \in {j \in DOMAIN infos : infos[j].is_nested_type}},
      has_vla_member |-> \E i \in DOMAIN infos : HasAnnotation(infos[i].annotations, "var_len_array"),
      members |-> infos,
      is_union |-> defs.kind = "union"]

\* The nested type names a type pushes on the work list, in member order.
NestedNames(t) ==
  LET ms == input.defs[t].members
      nestedOnly == SelectSeq(ms, LAMBDA m : m.type.type_spec.kw \in {"struct", "union"})
  IN [i \in DOMAIN nestedOnly |-> nestedOnly[i].type.type_spec.ref]

RECURSIVE ParseLoop(_, _, _)
\* The while loop of _parse_structs_and_unions: pop from the end of the work
\* list, skip what is already parsed, fail on a name that is neither a
\* struct nor a union.  ks is the dict's insertion order.
ParseLoop(todo, su, ks) ==
  IF todo = <<>> THEN [err |-> NoErr, su |-> su, keys |-> ks]
  ELSE LET type_name == todo[Len(todo)]
           rest == SubSeq(todo, 1, Len(todo) - 1)
       IN IF type_name \in DOMAIN su THEN ParseLoop(rest, su, ks)
          ELSE IF input.defs[type_name].kind = "none"
               THEN [err |-> Error("UnknownType", type_name, ""), su |-> su, keys |-> ks]
               ELSE ParseLoop(rest \o NestedNames(type_name),
                              su @@ (type_name :> NewEntry(type_name)),
                              Append(ks, type_name))

\* Build reverse linkage: appears_in of every type.
LinkAppearsIn(su) ==
  [t \in DOMAIN su |->
     [su[t] EXCEPT !.appears_in = {u \in DOMAIN su : t \in su[u].dependencies}]]

RECURSIVE MarkLoop(_, _)
\* The bubble-up without the push of the types the marked type appears in.
MarkLoop_parents_only(types_to_mark, su) ==
  IF types_to_mark = <<>> THEN su
  ELSE MarkLoop(SubSeq(types_to_mark, 1, Len(types_to_mark) - 1),
                [su EXCEPT ![types_to_mark[Len(types_to_mark)]].has_vla_member = TRUE])

\* The inner while loop of the bubble-up: pop a type, set its flag, push
\* the types it appears in.
MarkLoop(types_to_mark, su) ==
  IF types_to_mark = <<>> THEN su
  ELSE LET type_to_mark == types_to_mark[Len(types_to_mark)]
           rest == SubSeq(types_to_mark, 1, Len(types_to_mark) - 1)
       IN MarkLoop(rest \o SortedSeq(su[type_to_mark].appears_in),
                   [su EXCEPT ![type_to_mark].has_vla_member = TRUE])

RECURSIVE BubbleUp(_, _)
\* The outer loop of the bubble-up, over the dict in insertion order.
BubbleUp(ks, su) ==
  IF ks = <<>> THEN su
  ELSE BubbleUp(Tail(ks),
                IF su[Head(ks)].has_vla_member
                THEN MarkLoop(SortedSeq(su[Head(ks)].appears_in), su)
                ELSE su)

\* _parse_structs_and_unions as a whole.
ParseStructsAndUnions ==
  With(ParseLoop(input.root_structs, <<>>, <<>>),
       LAMBDA parsed :
         IF parsed.err.kind # "none" THEN parsed
         ELSE [parsed EXCEPT !.su = BubbleUp(parsed.keys, LinkAppearsIn(parsed.su))])

\* ------------------------------------------- CodeGenerator: shared helpers
\* A value or the RuntimeError that was raised instead of it.
Ok(v) == [err |-> NoErr, val |-> v]
Raise(e) == [err |-> e, val |-> <<>>]
Failed(r) == r.err.kind # "none"

\* The text built so far (out), the generator steps completed (log) and
\* the error that stopped it.
EmptyDoc == [err |-> NoErr, out |-> <<>>, log |-> <<>>]
Emit(G, item) == [G EXCEPT !.out = Append(@, item)]
Note(G, ev) == [G EXCEPT !.log = Append(@, ev)]
Abort(G, e) == [G EXCEPT !.err = e]

\* What follows a call that may raise: the rest runs on the value the call
\* returned, and an error raised by the call is passed on (Then) or stops
\* the text being built (Try).
Then(r, rest(_)) == IF Failed(r) THEN Raise(r.err) ELSE rest(r.val)
Try(G, r, rest(_)) == IF Failed(r) THEN Abort(G, r.err) ELSE rest(r.val)

_is_array_type(type_info) ==
  Len(type_info.declarators) = 1 /\ type_info.declarators[1].d = "[]"

_get_array_len(type_info) == type_info.declarators[1].n

_get_struct_or_union_prefix(su, chre_type) ==
  IF su[chre_type].is_union THEN "union" ELSE "struct"

\* 'chreWwanCellInfo' -> 'struct ChppWwanCellInfo': a rename_type
\* annotation on the type wins, else the name must start with 'chre'.
_get_chpp_type_from_chre(su, chre_type) ==
  IF HasAnnotation(Annotations(chre_type, "."), "rename_type")
  THEN Ok([kind |-> "chpp", kw |-> _get_struct_or_union_prefix(su, chre_type),
           ref |-> chre_type, base |-> "renamed"])
  ELSE IF input.defs[chre_type].name.chre
       THEN Ok([kind |-> "chpp", kw |-> _get_struct_or_union_prefix(su, chre_type),
                ref |-> chre_type, base |-> "Chpp"])
       ELSE Raise(Error("NamingConvention", chre_type, ""))

\* 'chreWwanCellResultInfo' -> 'CellResultInfo'.
_strip_prefix_and_service_from_chre_struct_name(struct) ==
  IF ~input.defs[struct].name.chre \/ ~input.defs[struct].name.svc
  THEN Raise(Error("StructureNaming", struct, ""))
  ELSE Ok(struct)

\* The annotation loop with rewrite_type looked for in the whole list
\* before var_len_array is.
MemberTypeLoop_rewrite_first(anns, underlying_vla_type) ==
  IF HasAnnotation(anns, "rewrite_type")
  THEN [found |-> TRUE,
        val |-> [kind |-> "override", kw |-> "", ref |-> 0,
                 base |-> anns[CHOOSE i \in DOMAIN anns :
                                 anns[i].annotation = "rewrite_type"].type_override]]
  ELSE IF ~underlying_vla_type /\ HasAnnotation(anns, "var_len_array")
       THEN [found |-> TRUE,
             val |-> [kind |-> "ChppOffset", kw |-> "struct", ref |-> 0, base |-> ""]]
       ELSE [found |-> FALSE]

RECURSIVE MemberTypeLoop(_, _)
\* The annotation loop of _get_member_type: the first rewrite_type, or the
\* first var_len_array when the outer type is asked for, decides.
MemberTypeLoop(anns, underlying_vla_type) ==
  IF anns = <<>> THEN [found |-> FALSE]
  ELSE IF Head(anns).annotation = "rewrite_type"
       THEN [found |-> TRUE,
             val |-> [kind |-> "override", kw |-> "", ref |-> 0, base |-> Head(anns).type_override]]
       ELSE IF ~underlying_vla_type /\ Head(anns).annotation = "var_len_array"
            THEN [found |-> TRUE,
                  val |-> [kind |-> "ChppOffset", kw |-> "struct", ref |-> 0, base |-> ""]]
            ELSE MemberTypeLoop(Tail(anns), underlying_vla_type)

\* _get_member_type without the check of pointer members.
_get_member_type_unchecked(su, member_info, underlying_vla_type) ==
  With(MemberTypeLoop(member_info.annotations, underlying_vla_type),
       LAMBDA byAnn :
         IF byAnn.found THEN Ok(byAnn.val)
         ELSE IF member_info.is_nested_type
              THEN _get_chpp_type_from_chre(su, member_info.nested_type_name)
              ELSE Ok([kind |-> "plain", kw |-> "", ref |-> 0,
                       base |-> member_info.type.type_spec.base]))

_get_member_type(su, member_info, underlying_vla_type) ==
  With(MemberTypeLoop(member_info.annotations, underlying_vla_type),
       LAMBDA byAnn :
         IF byAnn.found THEN Ok(byAnn.val)
         ELSE IF /\ ~underlying_vla_type
                 /\ Len(member_info.type.declarators) > 0
                 /\ member_info.type.declarators[1].d = "*"
              THEN Raise(Error("UnannotatedPointer", 0, member_info.name))
              ELSE IF member_info.is_nested_type
                   THEN _get_chpp_type_from_chre(su, member_info.nested_type_name)
                   ELSE Ok([kind |-> "plain", kw |-> "", ref |-> 0,
                            base |-> member_info.type.type_spec.base]))

_get_member_type_suffix(member_info) ==
  IF _is_array_type(member_info.type) THEN _get_array_len(member_info.type) ELSE 0

RECURSIVE MemberCommentLoop(_)
MemberCommentLoop(anns) ==
  IF anns = <<>> THEN ""
  ELSE IF Head(anns).annotation = "fixed_value" THEN "Input ignored"
       ELSE IF Head(anns).annotation = "var_len_array" THEN "References"
            ELSE MemberCommentLoop(Tail(anns))

_get_member_comment(member_info) == MemberCommentLoop(member_info.annotations)

\* ------------------------------------------------- the topological orderer
RECURSIVE sort_helper(_, _, _)
RECURSIVE sort_deps(_, _, _)
\* sort_helper with the key appended before its dependencies are visited.
sort_helper_preorder(collection, key, st) ==
  sort_deps(collection, SortedSeq(collection[key].dependencies),
            [st EXCEPT !.result = Append(@, key)])

\* The inner function of _sorted_structs: st is (visited, result).
sort_helper(collection, key, st) ==
  [sort_deps(collection, SortedSeq(collection[key].dependencies), st)
     EXCEPT !.result = Append(@, key)]

\* The for loop of sort_helper over the sorted dependencies.
sort_deps(collection, deps, st) ==
  IF deps = <<>> THEN st
  ELSE IF Head(deps) \notin st.visited
       THEN sort_deps(collection, Tail(deps),
                      sort_helper(collection, Head(deps),
                                  [st EXCEPT !.visited = @ \cup {Head(deps)}]))
       ELSE sort_deps(collection, Tail(deps), st)

RECURSIVE sort_roots(_, _, _)
sort_roots(collection, nodes, st) ==
  IF nodes = <<>> THEN st
  ELSE sort_roots(collection, Tail(nodes), sort_helper(collection, Head(nodes), st))

_sorted_structs(su, root_nodes) ==
  sort_roots(su, SortedSeq(Range(root_nodes)), [visited |-> {}, result |-> <<>>]).result

\* -------------------------------------------------------- header generation
\* The notice with the date left out.
_autogen_notice_undated(commit_hash, utcnow) ==
  [item |-> "notice", type |-> 0, date |-> 0, commit |-> commit_hash]

\* The comment at the top of both files: the date datetime.utcnow() gives
\* when the file is generated and the commit 'git describe' gave when the
\* CodeGenerator was made.
_autogen_notice(commit_hash, utcnow) ==
  [item |-> "notice", type |-> 0, date |-> utcnow, commit |-> commit_hash]

RECURSIVE DeclMembers(_, _, _)
\* The member loop of _gen_struct_or_union: one declaration line a member.
DeclMembers(su, members, acc) ==
  IF members = <<>> THEN Ok(acc)
  ELSE Then(_get_member_type(su, Head(members), FALSE),
            LAMBDA mt :
              DeclMembers(su, Tail(members),
                          Append(acc, [type |-> mt,
                                       name |-> Head(members).name,
                                       suffix |-> _get_member_type_suffix(Head(members)),
                                       comment |-> _get_member_comment(Head(members))])))

\* The definition of a single struct/union type.
_gen_struct_or_union(su, G, name) ==
  Try(G, _get_chpp_type_from_chre(su, name), LAMBDA ct :
  Try(G, DeclMembers(su, su[name].members, <<>>), LAMBDA ms :
  Emit(G, [item |-> "decl", type |-> name, chpp |-> ct, members |-> ms])))

RECURSIVE DeclLoop(_, _, _)
DeclLoop(su, G, names) ==
  IF names = <<>> \/ Failed(G) THEN G
  ELSE DeclLoop(su, _gen_struct_or_union(su, G, Head(names)), Tail(names))

\* Definitions for all struct/union types required for the root structs.
_gen_structs_and_unions(su, G) ==
  With(_sorted_structs(su, input.root_structs),
       LAMBDA sorted_structs :
         DeclLoop(su, Note(G, [step |-> "sorted_structs", order |-> sorted_structs]),
                  sorted_structs))

_get_encode_allocation_function_name(chre_type) ==
  _strip_prefix_and_service_from_chre_struct_name(chre_type)

_gen_encode_allocation_function_signature(su, G, chre_type) ==
  Try(G, _get_encode_allocation_function_name(chre_type), LAMBDA fn :
  Try(G, _get_chpp_type_from_chre(su, chre_type), LAMBDA ct :
  Emit(G, [item |-> "alloc_sig", type |-> chre_type, chpp |-> ct])))

RECURSIVE SignatureLoop(_, _, _)
SignatureLoop(su, G, roots) ==
  IF roots = <<>> \/ Failed(G) THEN G
  ELSE SignatureLoop(su, _gen_encode_allocation_function_signature(su, G, Head(roots)),
                     Tail(roots))

_gen_encode_allocation_function_signatures(su, G) ==
  SignatureLoop(su, G, input.root_structs)

\* The C header: the notice, the packed declarations in dependency order,
\* then the prototypes of the allocation entry points.  on is the machine
\* the generator runs on.
generate_header_string(su, on) ==
  With(_gen_structs_and_unions(
         su, Emit(EmptyDoc, _autogen_notice(on.commit_hash, on.utcnow[1]))),
       LAMBDA decls :
         IF Failed(decls) THEN decls
         ELSE _gen_encode_allocation_function_signatures(su, decls))

\* ---------------------------------------------------- size function emission
_get_chpp_sizeof_function_name(chre_struct) ==
  _strip_prefix_and_service_from_chre_struct_name(chre_struct)

\* The encoder's name made from any type name.
_get_encoding_function_name_any(chre_type) == Ok(chre_type)

_get_encoding_function_name(chre_type) ==
  _strip_prefix_and_service_from_chre_struct_name(chre_type)

\* sizeof(<type in CHPP struct>), or a call of the member type's size
\* function when that type contains a VLA.
_get_chpp_member_sizeof_call(su, member_info) ==
  IF member_info.is_nested_type
  THEN IF su[member_info.nested_type_name].has_vla_member
       THEN Then(_get_chpp_sizeof_function_name(member_info.nested_type_name),
                 LAMBDA fn : Ok([call |-> "sizeof_fn", ref |-> fn, arg |-> member_info.name]))
       ELSE Then(_get_chpp_type_from_chre(su, member_info.nested_type_name),
                 LAMBDA ct : Ok([call |-> "sizeof", type |-> ct]))
  ELSE Ok([call |-> "sizeof",
           type |-> [kind |-> "plain", kw |-> "", ref |-> 0,
                     base |-> member_info.type.type_spec.base]])

RECURSIVE SizeofAnnotationLoop(_, _, _, _, _)
\* The annotation loop of _gen_chpp_sizeof_function for one member: every
\* var_len_array annotation adds count * sizeof(element).
SizeofAnnotationLoop(su, chre_type, member_info, anns, acc) ==
  IF anns = <<>> THEN Ok(acc)
  ELSE IF Head(anns).annotation = "var_len_array"
       THEN IF member_info.is_nested_type
               /\ su[member_info.nested_type_name].has_vla_member
            THEN Raise(Error("UnsupportedNesting", chre_type, member_info.name))
            ELSE Then(_get_member_type(su, member_info, TRUE),
                      LAMBDA et :
                        SizeofAnnotationLoop(su, chre_type, member_info, Tail(anns),
                          Append(acc, [length_field |-> Head(anns).length_field,
                                       elem |-> et])))
       ELSE SizeofAnnotationLoop(su, chre_type, member_info, Tail(anns), acc)

RECURSIVE SizeofMemberLoop(_, _, _, _)
SizeofMemberLoop(su, chre_type, members, acc) ==
  IF members = <<>> THEN Ok(acc)
  ELSE Then(SizeofAnnotationLoop(su, chre_type, Head(members),
                                 Head(members).annotations, acc),
            LAMBDA more : SizeofMemberLoop(su, chre_type, Tail(members), more))

\* The function that computes the encoded size of a CHRE struct; nothing
\* is emitted for a type without a VLA member.
_gen_chpp_sizeof_function(su, G, chre_type) ==
  IF ~su[chre_type].has_vla_member THEN G
  ELSE Try(G, _strip_prefix_and_service_from_chre_struct_name(chre_type), LAMBDA core :
       Try(G, _get_chpp_type_from_chre(su, chre_type), LAMBDA ct :
       Try(G, SizeofMemberLoop(su, chre_type, su[chre_type].members, <<>>), LAMBDA adds :
       Emit(G, [item |-> "sizeof_fn", type |-> chre_type, static |-> ct, adds |-> adds]))))

RECURSIVE SizeofFunctionLoop(_, _, _)
SizeofFunctionLoop(su, G, roots) ==
  IF roots = <<>> \/ Failed(G) THEN G
  ELSE SizeofFunctionLoop(su, _gen_chpp_sizeof_function(su, G, Head(roots)), Tail(roots))

\* For each root struct, the function that determines its encoded size.
_gen_chpp_sizeof_functions(su, G) == SizeofFunctionLoop(su, G, input.root_structs)

\* -------------------------------------------------------- encoder emission
\* The statement that assigns one member: a call of the nested type's
\* encoder, a memcpy of a fixed array, or a plain assignment.
_get_assignment_statement_for_field(su, member_info, in_vla_loop, containing_field_name) ==
  IF member_info.is_nested_type
  THEN Then(_get_encoding_function_name(member_info.nested_type_name),
            LAMBDA fn :
              Ok([stmt |-> "call", field |-> member_info.name,
                  containing |-> containing_field_name, in_vla_loop |-> in_vla_loop,
                  fn |-> fn, vla_params |-> su[fn].has_vla_member]))
  ELSE IF _is_array_type(member_info.type)
       THEN Ok([stmt |-> "memcpy", field |-> member_info.name,
                containing |-> containing_field_name, in_vla_loop |-> in_vla_loop,
                fn |-> 0, vla_params |-> FALSE])
       ELSE Ok([stmt |-> "assign", field |-> member_info.name,
                containing |-> containing_field_name, in_vla_loop |-> in_vla_loop,
                fn |-> 0, vla_params |-> FALSE])

\* The block that claims a payload region for a var_len_array member.
_gen_vla_encoding(su, member_info, annotation) ==
  Then(_get_member_type(su, member_info, TRUE), LAMBDA chpp_type :
  Then(_get_chpp_member_sizeof_call(su, member_info), LAMBDA size :
  Then(_get_assignment_statement_for_field(su, member_info, TRUE, ""), LAMBDA body :
  Ok([stmt |-> "vla", field |-> member_info.name,
      length_field |-> annotation.length_field,
      elem |-> chpp_type, size |-> size, body |-> body]))))

RECURSIVE FindMember(_, _)
\* The first member of the given name, or a record with found = FALSE.
FindMember(members, field_name) ==
  IF members = <<>> THEN [found |-> FALSE]
  ELSE IF Head(members).name = field_name THEN [found |-> TRUE, info |-> Head(members)]
       ELSE FindMember(Tail(members), field_name)

RECURSIVE UnionCaseLoop(_, _, _, _)
\* The mapping loop with every case assigning the first member of the union.
UnionCaseLoop_first_member(su, member_info, mapping, acc) ==
  IF mapping = <<>> THEN Ok(acc)
  ELSE With(FindMember(su[member_info.nested_type_name].members, Head(mapping)[2]),
            LAMBDA hit :
              IF ~hit.found
              THEN Raise(Error("InvalidMapping", member_info.nested_type_name,
                               Head(mapping)[2]))
              ELSE Then(_get_assignment_statement_for_field(
                          su, su[member_info.nested_type_name].members[1], FALSE,
                          member_info.name),
                        LAMBDA st :
                          UnionCaseLoop(su, member_info, Tail(mapping),
                                        Append(acc, [value |-> Head(mapping)[1],
                                                     body |-> st]))))

\* The mapping loop of _gen_union_variant_conversion_code: one case label
\* and one assignment a mapped value.
UnionCaseLoop(su, member_info, mapping, acc) ==
  IF mapping = <<>> THEN Ok(acc)
  ELSE With(FindMember(su[member_info.nested_type_name].members, Head(mapping)[2]),
            LAMBDA hit :
              IF ~hit.found
              THEN Raise(Error("InvalidMapping", member_info.nested_type_name,
                               Head(mapping)[2]))
              ELSE Then(_get_assignment_statement_for_field(su, hit.info, FALSE,
                                                            member_info.name),
                        LAMBDA st :
                          UnionCaseLoop(su, member_info, Tail(mapping),
                                        Append(acc, [value |-> Head(mapping)[1],
                                                     body |-> st]))))

\* The switch without the memset in front of it.
_gen_union_variant_conversion_code_no_memset(su, member_info, annotation) ==
  Then(UnionCaseLoop(su, member_info, annotation.mapping, <<>>), LAMBDA cases :
  Ok([stmt |-> "union_variant", field |-> member_info.name, memset |-> FALSE,
      discriminator |-> annotation.discriminator, cases |-> cases,
      default |-> "CHPP_ASSERT(false)"]))

\* memset of the union field, then the switch over the discriminator with
\* CHPP_ASSERT(false) as its default.
_gen_union_variant_conversion_code(su, member_info, annotation) ==
  Then(UnionCaseLoop(su, member_info, annotation.mapping, <<>>), LAMBDA cases :
  Ok([stmt |-> "union_variant", field |-> member_info.name, memset |-> TRUE,
      discriminator |-> annotation.discriminator, cases |-> cases,
      default |-> "CHPP_ASSERT(false)"]))

\* The first annotation of a kind in a list that holds one.
FirstOfKind(anns, k) ==
  anns[CHOOSE i \in DOMAIN anns :
         /\ anns[i].annotation = k
         /\ \A j \in 1..(i - 1) : anns[j].annotation # k]

\* The annotation loop with the kinds looked for in a fixed order in the
\* whole list: fixed_value, then var_len_array, then union_variant.
EncodeAnnotationLoop_by_kind(su, member_info, anns) ==
  IF HasAnnotation(anns, "fixed_value")
  THEN Ok([found |-> TRUE,
           st |-> [stmt |-> IF _is_array_type(member_info.type)
                            THEN "fixed_memset" ELSE "fixed_assign",
                   field |-> member_info.name,
                   value |-> FirstOfKind(anns, "fixed_value").value]])
  ELSE IF HasAnnotation(anns, "var_len_array")
       THEN Then(_gen_vla_encoding(su, member_info, FirstOfKind(anns, "var_len_array")),
                 LAMBDA st : Ok([found |-> TRUE, st |-> st]))
       ELSE IF HasAnnotation(anns, "union_variant")
            THEN Then(_gen_union_variant_conversion_code(
                        su, member_info, FirstOfKind(anns, "union_variant")),
                      LAMBDA st : Ok([found |-> TRUE, st |-> st]))
            ELSE Ok([found |-> FALSE])

RECURSIVE EncodeAnnotationLoop(_, _, _)
\* The annotation loop of _gen_encoding_function for one member: the first
\* fixed_value, var_len_array or union_variant in the list decides; enum
\* is passed over.  found = FALSE means no annotation generated anything.
EncodeAnnotationLoop(su, member_info, anns) ==
  IF anns = <<>> THEN Ok([found |-> FALSE])
  ELSE CASE Head(anns).annotation = "fixed_value" ->
              Ok([found |-> TRUE,
                  st |-> [stmt |-> IF _is_array_type(member_info.type)
                                   THEN "fixed_memset" ELSE "fixed_assign",
                          field |-> member_info.name, value |-> Head(anns).value]])
         [] Head(anns).annotation = "var_len_array" ->
              Then(_gen_vla_encoding(su, member_info, Head(anns)),
                   LAMBDA st : Ok([found |-> TRUE, st |-> st]))
         [] Head(anns).annotation = "union_variant" ->
              Then(_gen_union_variant_conversion_code(su, member_info, Head(anns)),
                   LAMBDA st : Ok([found |-> TRUE, st |-> st]))
         [] OTHER -> EncodeAnnotationLoop(su, member_info, Tail(anns))

RECURSIVE EncodeMemberLoop(_, _, _)
EncodeMemberLoop(su, members, acc) ==
  IF members = <<>> THEN Ok(acc)
  ELSE Then(EncodeAnnotationLoop(su, Head(members), Head(members).annotations),
            LAMBDA byAnn :
              IF byAnn.found
              THEN EncodeMemberLoop(su, Tail(members), Append(acc, byAnn.st))
              ELSE Then(_get_assignment_statement_for_field(su, Head(members), FALSE, ""),
                        LAMBDA st : EncodeMemberLoop(su, Tail(members), Append(acc, st))))

\* The signature of an encoder: the payload parameters are there only for
\* a type with a VLA member.
_gen_encoding_function_signature(su, chre_type) ==
  Then(_get_encoding_function_name(chre_type), LAMBDA fn :
  Then(_get_chpp_type_from_chre(su, chre_type), LAMBDA ct :
  Ok([chpp |-> ct, vla_params |-> su[chre_type].has_vla_member])))

RECURSIVE _gen_encoding_function(_, _, _)
RECURSIVE EncodeDependencyLoop(_, _, _)
\* S is the text so far (G) with the already_generated set (done).
_gen_encoding_function(su, S, chre_type) ==
  With(EncodeDependencyLoop(su, S, SortedSeq(su[chre_type].dependencies)),
       LAMBDA S1 :
         IF Failed(S1.G) \/ chre_type \in S1.done \/ su[chre_type].is_union THEN S1
         ELSE [done |-> S1.done \cup {chre_type},
               G |-> Try(S1.G, _gen_encoding_function_signature(su, chre_type), LAMBDA sig :
                     Try(S1.G, EncodeMemberLoop(su, su[chre_type].members, <<>>), LAMBDA body :
                     Emit(S1.G, [item |-> "encoder", type |-> chre_type,
                                 chpp |-> sig.chpp, vla_params |-> sig.vla_params,
                                 body |-> body])))])

\* The dependency loop left out.
EncodeDependencyLoop_none(su, S, deps) == S

\* The dependency loop of _gen_encoding_function.
EncodeDependencyLoop(su, S, deps) ==
  IF deps = <<>> \/ Failed(S.G) THEN S
  ELSE EncodeDependencyLoop(su,
         IF Head(deps) \notin S.done THEN _gen_encoding_function(su, S, Head(deps)) ELSE S,
         Tail(deps))

RECURSIVE EncodeRootLoop(_, _, _)
EncodeRootLoop(su, S, roots) ==
  IF roots = <<>> \/ Failed(S.G) THEN S
  ELSE EncodeRootLoop(su, _gen_encoding_function(su, S, Head(roots)), Tail(roots))

_gen_encoding_functions(su, G) ==
  EncodeRootLoop(su, [G |-> G, done |-> {}], input.root_structs).G

\* ------------------------------------------- allocation entry point emission
\* sizeof of the CHPP type for every root, with or without a VLA member.
_get_chpp_sizeof_call_static(su, chre_type) ==
  Then(_get_chpp_type_from_chre(su, chre_type),
       LAMBDA ct : Ok([call |-> "sizeof", type |-> ct]))

\* The size of a top-level instance: the type's size function when it has
\* a VLA member, sizeof of the CHPP type otherwise.
_get_chpp_sizeof_call(su, chre_type) ==
  IF su[chre_type].has_vla_member
  THEN Then(_get_chpp_sizeof_function_name(chre_type),
            LAMBDA fn : Ok([call |-> "sizeof_fn", ref |-> fn, arg |-> "in"]))
  ELSE Then(_get_chpp_type_from_chre(su, chre_type),
            LAMBDA ct : Ok([call |-> "sizeof", type |-> ct]))

_gen_encode_allocation_function(su, G, chre_type) ==
  With(_gen_encode_allocation_function_signature(su, EmptyDoc, chre_type), LAMBDA sig :
  IF Failed(sig) THEN Abort(G, sig.err)
  ELSE Try(G, _get_chpp_sizeof_call(su, chre_type), LAMBDA size :
       Try(G, _get_chpp_type_from_chre(su, chre_type), LAMBDA ct :
       Try(G, _get_encoding_function_name(chre_type), LAMBDA enc :
       Emit(G, [item |-> "alloc_fn", type |-> chre_type,
                payloadSize |-> size,
                has_vla_member |-> su[chre_type].has_vla_member,
                vlaOffset |-> [call |-> "sizeof", type |-> ct],
                encoder |-> enc])))))

RECURSIVE AllocationLoop(_, _, _)
AllocationLoop(su, G, roots) ==
  IF roots = <<>> \/ Failed(G) THEN G
  ELSE AllocationLoop(su, _gen_encode_allocation_function(su, G, Head(roots)), Tail(roots))

_gen_encode_allocation_functions(su, G) == AllocationLoop(su, G, input.root_structs)

\* The .c file: the notice, size functions, encoders, allocation entry
\* points.  on is the machine the generator runs on.
generate_conversion_string(su, on) ==
  With(_gen_chpp_sizeof_functions(
         su, Emit(EmptyDoc, _autogen_notice(on.commit_hash, on.utcnow[2]))),
       LAMBDA sizes :
         IF Failed(sizes) THEN sizes
         ELSE With(_gen_encoding_functions(su, Note(sizes, [step |-> "sizeof_functions"])),
                   LAMBDA encs :
                     IF Failed(encs) THEN encs
                     ELSE _gen_encode_allocation_functions(
                            su, Note(encs, [step |-> "encoding_functions"]))))

\* ------------------------------------------------------------ the inputs
\* What one run reads: the parsed declarations (defs), the annotation
\* document (struct_info) and the request (root_structs).
FieldNames == <<"m1", "m2", "m3", "m4", "m5", "m6">>
NestedField(t) == FieldNames[t]

Pairs == {p \in Types \X Types : p[1] # p[2]}

RECURSIVE ReachFrom(_, _)
\* The types reachable from the set S over the edges E (S included).
ReachFrom(S, E) ==
  LET next == S \cup {p[2] : p \in {q \in E : q[1] \in S}}
  IN IF next = S THEN S ELSE ReachFrom(next, E)

IsAcyclic(E) == \A t \in Types : t \notin ReachFrom({p[2] : p \in {q \in E : q[1] = t}}, E)

RootLists == UNION {{r \in [1..n -> Types] : \A i, j \in 1..n : i # j => r[i] # r[j]} :
                    n \in 1..MaxRoots}

CountField == Member("count", PlainSpec("uint16_t"), NoDecl)

NestedMembers(deps) ==
  LET ds == SortedSeq(deps)
  IN [i \in DOMAIN ds |-> Member(NestedField(ds[i]), NestedSpec("struct", ds[i]), NoDecl)]

\* Plain struct graphs: every type has a count, one member for each type
\* it contains and, for the types in V, an array of uint32_t behind a
\* pointer whose length is the count (and, with two, an array of uint8_t of
\* the same length after it).
GraphInput(E, V, roots, two) ==
  [root_structs |-> roots,
   defs |-> [t \in Types |->
               [kind |-> "struct", name |-> GoodName,
                members |-> <<CountField>>
                            \o NestedMembers({p[2] : p \in {q \in E : q[1] = t}})
                            \o (IF t \in V
                                THEN <<Member("items", PlainSpec("uint32_t"), PtrDecl)>>
                                ELSE <<>>)
                            \o (IF t \in V /\ two
                                THEN <<Member("more", PlainSpec("uint8_t"), PtrDecl)>>
                                ELSE <<>>)]],
   struct_info |-> [t \in Types |->
                      [name |-> t,
                       annotations |-> (IF t \in V THEN <<VarLenArray("items", "count")>>
                                        ELSE <<>>)
                                       \o (IF t \in V /\ two
                                           THEN <<VarLenArray("more", "count")>>
                                           ELSE <<>>)]]]

\* The acyclic edge sets of the bound.
EdgeSets == {F \in SUBSET Pairs : Cardinality(F) <= MaxEdges /\ IsAcyclic(F)}

\* Only what the roots reach is read: inputs that differ elsewhere are the
\* same run, so every edge starts at a type the roots reach and the array
\* is in such a type.  The second array is tried on the graphs of at most
\* one edge.
GraphChoices ==
  {c \in RootLists \X EdgeSets \X {W \in SUBSET Types : Cardinality(W) <= 1} \X BOOLEAN :
     /\ c[4] => (c[3] # {} /\ Cardinality(c[2]) <= 1)
     /\ With(ReachFrom(Range(c[1]), c[2]),
             LAMBDA R : c[3] \subseteq R /\ \A p \in c[2] : p[1] \in R)}

GraphInputs == {GraphInput(c[2], c[3], c[1], c[4]) : c \in GraphChoices}

\* The types the roots of an input reach.
Reached(inp) ==
  ReachFrom(Range(inp.root_structs),
            {p \in Pairs : \E i \in DOMAIN inp.defs[p[1]].members :
                              inp.defs[p[1]].members[i].type.type_spec.ref = p[2]})

\* A type no root reaches in the families below.
Unused == [kind |-> "struct", name |-> GoodName, members |-> <<CountField>>]

Names == {GoodName, [chre |-> TRUE, svc |-> FALSE], [chre |-> FALSE, svc |-> FALSE]}

\* The annotation lists tried on a pointer member p.
PointerAnnotations ==
  {<<>>,
   <<RewriteType("p", "uint32_t")>>,
   <<VarLenArray("p", "count")>>,
   <<FixedValue("p", 0)>>,
   <<EnumAnn("p")>>,
   <<VarLenArray("p", "count"), RewriteType("p", "uint32_t")>>,
   <<RewriteType("p", "uint32_t"), VarLenArray("p", "count")>>,
   <<FixedValue("p", 0), VarLenArray("p", "count")>>,
   <<VarLenArray("p", "count"), FixedValue("p", 0)>>,
   <<EnumAnn("p"), VarLenArray("p", "count")>>,
   <<EnumAnn("p"), RewriteType("p", "uint32_t")>>}

\* Root 2 contains type 1 (a struct, or a name the parser does not know);
\* the type at pos has a uint8_t pointer p with the annotations anns; the
\* names of both types vary.
PointerInput(pos, anns, name1, name2, renamed, kind1) ==
  LET p == <<Member("p", PlainSpec("uint8_t"), PtrDecl)>>
  IN [root_structs |-> <<2>>,
      defs |-> [t \in Types |->
                  CASE t = 2 -> [kind |-> "struct", name |-> name2,
                                 members |-> <<CountField>> \o NestedMembers({1})
                                             \o (IF pos = 2 THEN p ELSE <<>>)]
                    [] t = 1 -> [kind |-> kind1, name |-> name1,
                                 members |-> <<CountField>> \o (IF pos = 1 THEN p ELSE <<>>)]
                    [] OTHER -> Unused],
      struct_info |-> <<[name |-> pos, annotations |-> anns],
                        [name |-> 1, annotations |-> IF renamed THEN <<RenameType>> ELSE <<>>]>>]

PointerInputs ==
  {PointerInput(pos, anns, name1, name2, renamed, kind1) :
     pos \in {1, 2}, anns \in PointerAnnotations, name1 \in Names, name2 \in Names,
     renamed \in BOOLEAN, kind1 \in {"struct", "none"}}

\* How a type holds the next type of the chain 3 -> 2 -> 1: as a plain
\* member, or as an array of it behind a pointer (a var_len_array).
Link(kind, d) ==
  IF kind = "vla" THEN <<Member(NestedField(d), NestedSpec("struct", d), PtrDecl)>>
  ELSE <<Member(NestedField(d), NestedSpec("struct", d), NoDecl)>>

LinkAnnotations(kind, d) ==
  IF kind = "vla" THEN <<VarLenArray(NestedField(d), "count")>> ELSE <<>>

ChainInput(link32, link21, leaf, roots) ==
  [root_structs |-> roots,
   defs |-> [t \in Types |->
               CASE t = 3 -> [kind |-> "struct", name |-> GoodName,
                              members |-> <<CountField>> \o Link(link32, 2)]
                 [] t = 2 -> [kind |-> "struct", name |-> GoodName,
                              members |-> <<CountField>> \o Link(link21, 1)]
                 [] t = 1 -> [kind |-> IF leaf = "none" THEN "none" ELSE "struct",
                              name |-> GoodName,
                              members |-> <<CountField>>
                                          \o (IF leaf = "vla"
                                              THEN <<Member("items", PlainSpec("uint32_t"), PtrDecl)>>
                                              ELSE <<>>)]
                 [] OTHER -> Unused],
   struct_info |-> <<[name |-> 3, annotations |-> LinkAnnotations(link32, 2)],
                     [name |-> 2, annotations |-> LinkAnnotations(link21, 1)],
                     [name |-> 1, annotations |-> IF leaf = "vla"
                                                  THEN <<VarLenArray("items", "count")>>
                                                  ELSE <<>>]>>]

ChainInputs ==
  {ChainInput(link32, link21, leaf, roots) :
     link32 \in {"plain", "vla"}, link21 \in {"plain", "vla"},
     leaf \in {"plain", "vla", "none"},
     roots \in {<<3>>, <<3, 2>>, <<2, 3>>, <<3, 1>>, <<1, 2, 3>>}}

\* The discriminator mappings tried on the union member u.
Mappings ==
  {<<<<1, "a">>, <<2, "b">>>>,
   <<<<1, "a">>, <<2, "b">>, <<3, "c">>>>,
   <<<<2, "b">>, <<1, "a">>>>,
   <<<<1, "a">>, <<2, "zz">>>>}

\* Root 3 holds a discriminator kind and a union 2 of a uint8_t a, an array
\* b and a struct 1 c; the struct at the root also ends in a plain field.
\* The names of the union and of the struct in it vary.
UnionInput(mapping, annotated, name1, name2) ==
  [root_structs |-> <<3>>,
   defs |-> [t \in Types |->
               CASE t = 3 -> [kind |-> "struct", name |-> GoodName,
                              members |-> <<Member("kind", PlainSpec("uint8_t"), NoDecl),
                                            Member("u", NestedSpec("union", 2), NoDecl),
                                            Member("tail", PlainSpec("uint16_t"), NoDecl)>>]
                 [] t = 2 -> [kind |-> "union", name |-> name2,
                              members |-> <<Member("a", PlainSpec("uint8_t"), NoDecl),
                                            Member("b", PlainSpec("uint16_t"), ArrDecl(2)),
                                            Member("c", NestedSpec("struct", 1), NoDecl)>>]
                 [] t = 1 -> [kind |-> "struct", name |-> name1,
                              members |-> <<Member("x", PlainSpec("uint32_t"), NoDecl),
                                            Member("y", PlainSpec("uint8_t"), NoDecl)>>]
                 [] OTHER -> Unused],
   struct_info |-> <<[name |-> 3,
                      annotations |-> IF annotated THEN <<UnionVariant("u", "kind", mapping)>>
                                      ELSE <<>>],
                     [name |-> 1, annotations |-> <<FixedValue("y", 7)>>]>>]

UnionInputs ==
  {UnionInput(mapping, annotated, name1, name2) :
     mapping \in Mappings, annotated \in BOOLEAN, name1 \in Names,
     name2 \in {GoodName, [chre |-> TRUE, svc |-> FALSE]}}

Inputs ==
  GraphInputs \cup PointerInputs \cup ChainInputs \cup UnionInputs

\* What the generator reads of the machine it runs on: the output of 'git
\* describe' and the values of datetime.utcnow() at its first and second
\* call.
ReferenceHost == [commit_hash |-> "g1a2b3c", utcnow |-> <<10, 10>>]

Hosts ==
  {[commit_hash |-> h, utcnow |-> c] :
     h \in {"g1a2b3c", "g1a2b3c-dirty"}, c \in {<<10, 10>>, <<10, 11>>, <<20, 20>>}}

\* The runs: every input on the reference machine, and the chains on every
\* machine.
Runs == (Inputs \X {ReferenceHost}) \cup (ChainInputs \X Hosts)

\* The inputs whose generated code is then run.
RunInputs ==
  GraphInputs \cup ChainInputs \cup UnionInputs

\* ------------------------------------------- the generated C code, executed
\* The items of a kind in a generated document, in emission order.
ItemsOf(doc, kind) == SelectSeq(doc, LAMBDA it : it.item = kind)
HasItem(doc, kind, t) == \E i \in DOMAIN doc : doc[i].item = kind /\ doc[i].type = t
ItemFor(doc, kind, t) ==
  doc[CHOOSE i \in DOMAIN doc : doc[i].item = kind /\ doc[i].type = t]

\* sizeof of the plain C types the inputs use.
ScalarSize(base) ==
  CASE base = "uint8_t" -> 1
    [] base = "uint16_t" -> 2
    [] base = "uint32_t" -> 4
    [] OTHER -> 4

\* struct ChppOffset: a uint16_t offset and a uint16_t length.
ChppOffsetSize == ScalarSize("uint16_t") + ScalarSize("uint16_t")

Max(a, b) == IF a >= b THEN a ELSE b

RECURSIVE Sizeof(_, _)
RECURSIVE SizeofMembers(_, _, _)
\* sizeof of a generated type: the declarations of the header are packed,
\* so a struct is the sum of its members and a union the largest of them.
Sizeof(hdr, type) ==
  CASE type.kind = "ChppOffset" -> ChppOffsetSize
    [] type.kind = "chpp" ->
         SizeofMembers(hdr, ItemFor(hdr, "decl", type.ref).members, type.kw = "union")
    [] OTHER -> ScalarSize(type.base)

SizeofMembers(hdr, members, is_union) ==
  IF members = <<>> THEN 0
  ELSE LET m == Head(members)
           one == Sizeof(hdr, m.type) * (IF m.suffix > 0 THEN m.suffix ELSE 1)
           rest == SizeofMembers(hdr, Tail(members), is_union)
       IN IF is_union THEN Max(one, rest) ELSE one + rest

\* The width of the cursor: uint16_t *vlaOffset.
Uint16 == 65536

RECURSIVE SizeofAdds(_, _, _)
\* The statements 'encodedSize += in->count * sizeof(element)' of one
\* emitted size function, run on an instance of its type.
SizeofAdds(env, t, adds) ==
  IF adds = <<>> THEN 0
  ELSE env.inst[t][Head(adds).length_field] * Sizeof(env.hdr, Head(adds).elem)
       + SizeofAdds(env, t, Tail(adds))

\* An emitted size function, run on an instance of its type.
RunSizeofFunction(env, t) ==
  LET fn == ItemFor(env.conv, "sizeof_fn", t)
  IN Sizeof(env.hdr, fn.static) + SizeofAdds(env, t, fn.adds)

\* A size expression of the generated code.
EvalSize(env, size) ==
  IF size.call = "sizeof_fn" THEN RunSizeofFunction(env, size.ref)
  ELSE Sizeof(env.hdr, size.type)


RECURSIVE Filled(_, _, _)
\* An object of a generated type with every scalar set to v: fresh memory
\* from chppMalloc (v the garbage it holds) or the result of memset.
Filled(hdr, t, v) ==
  LET ms == ItemFor(hdr, "decl", t).members
      of(f) == ms[CHOOSE i \in DOMAIN ms : ms[i].name = f]
  IN [f \in {ms[i].name : i \in DOMAIN ms} |->
        CASE of(f).type.kind = "chpp" -> Filled(hdr, of(f).type.ref, v)
          [] of(f).type.kind = "ChppOffset" -> [length |-> v, offset |-> v]
          [] OTHER -> v]

\* The CHRE type of a nested member of t.
NestedTypeOf(su, t, f) == FindMember(su[t].members, f).info.nested_type_name

\* What a run of generated code has done besides filling *out: the cursor,
\* the payload regions it claimed, and whether a CHPP_ASSERT failed
\* (asserted) and stopped the program (aborted).
StartContext(cursor) ==
  [vlaOffset |-> cursor, events |-> <<>>, asserted |-> FALSE, aborted |-> FALSE]

\* CHPP_ASSERT(cond): a failed assertion stops the program in a build that
\* keeps assertions and is passed over in one that compiles them out.
ChppAssert(env, ctx, cond) ==
  IF cond THEN ctx
  ELSE [ctx EXCEPT !.asserted = TRUE, !.aborted = env.assertions]

RECURSIVE RunEncoder(_, _, _, _)
RECURSIVE ExecBody(_, _, _, _)
RECURSIVE ExecStmt(_, _, _, _)
RECURSIVE ExecElements(_, _, _, _)
\* An emitted encoder for type t, run on the instance of t: out is the
\* object it writes into.
RunEncoder(env, t, out, ctx) ==
  ExecBody(env, t, ItemFor(env.conv, "encoder", t).body, [out |-> out, ctx |-> ctx])

ExecBody(env, t, body, S) ==
  IF body = <<>> \/ S.ctx.aborted THEN S
  ELSE ExecBody(env, t, Tail(body), ExecStmt(env, t, Head(body), S))

\* The for loop of a VLA block: n runs of the element assignment.  Plain
\* elements touch the payload only; an element encoder that takes the
\* payload parameters moves the cursor on each run.
ExecElements(env, st, n, ctx) ==
  IF n = 0 \/ ctx.aborted \/ st.body.stmt # "call" THEN ctx
  ELSE LET one == RunEncoder(env, st.body.fn, Filled(env.hdr, st.body.fn, env.garbage), ctx).ctx
       IN IF st.body.vla_params THEN ExecElements(env, st, n - 1, one) ELSE one

\* The block with the length set back to 0 in its else branch.
ExecVla_length_reset(env, t, st, S) ==
  LET n == env.inst[t][st.length_field]
      before == S.ctx.vlaOffset
      length == (n * EvalSize(env, st.size)) % env.lengthMod
      fits == before + length <= env.payloadSize
      taken == length > 0 /\ fits
      checked == ChppAssert(env, S.ctx, fits)
      after == IF taken THEN (before + length) % Uint16 ELSE before
      event == [type |-> t, field |-> st.field, n |-> n, esize |-> EvalSize(env, st.size),
                length |-> length, before |-> before, fits |-> fits, taken |-> taken,
                after |-> after, written |-> IF taken THEN n ELSE 0,
                writeAt |-> before, wsize |-> Sizeof(env.hdr, st.elem),
                payloadSize |-> env.payloadSize,
                stored |-> [length |-> IF taken THEN length ELSE 0,
                            offset |-> IF taken THEN before ELSE 0]]
      claimed == [checked EXCEPT !.vlaOffset = after, !.events = Append(@, event)]
  IN [out |-> [S.out EXCEPT ![st.field] = event.stored],
      ctx |-> IF checked.aborted THEN [checked EXCEPT !.events = Append(@, event)]
              ELSE IF taken THEN ExecElements(env, st, n, claimed) ELSE claimed]

\* The block emitted by _gen_vla_encoding.
ExecVla(env, t, st, S) ==
  LET n == env.inst[t][st.length_field]
      before == S.ctx.vlaOffset
      length == (n * EvalSize(env, st.size)) % env.lengthMod
      fits == before + length <= env.payloadSize
      taken == length > 0 /\ fits
      checked == ChppAssert(env, S.ctx, fits)
      after == IF taken THEN (before + length) % Uint16 ELSE before
      event == [type |-> t, field |-> st.field, n |-> n, esize |-> EvalSize(env, st.size),
                length |-> length, before |-> before, fits |-> fits, taken |-> taken,
                after |-> after, written |-> IF taken THEN n ELSE 0,
                writeAt |-> before, wsize |-> Sizeof(env.hdr, st.elem),
                payloadSize |-> env.payloadSize,
                stored |-> [length |-> length,
                            offset |-> IF checked.aborted THEN S.out[st.field].offset
                                       ELSE IF taken THEN before ELSE 0]]
      claimed == [checked EXCEPT !.vlaOffset = after, !.events = Append(@, event)]
  IN IF checked.aborted
     THEN [out |-> [S.out EXCEPT ![st.field] = event.stored],
           ctx |-> [checked EXCEPT !.events = Append(@, event)]]
     ELSE [out |-> [S.out EXCEPT ![st.field] = event.stored],
           ctx |-> IF taken THEN ExecElements(env, st, n, claimed) ELSE claimed]

\* The value an assignment statement stores, read from the instance of the
\* type that holds the field.
AssignedValue(env, holder, st, old, ctx) ==
  IF st.stmt = "call"
  THEN RunEncoder(env, st.fn, old, ctx)
  ELSE [out |-> env.inst[holder][st.field], ctx |-> ctx]

\* The block emitted by _gen_union_variant_conversion_code.
ExecUnion(env, t, st, S) ==
  LET u == NestedTypeOf(env.su, t, st.field)
      zeroed == IF st.memset THEN Filled(env.hdr, u, 0) ELSE S.out[st.field]
      d == env.inst[t][st.discriminator]
      hits == {i \in DOMAIN st.cases : st.cases[i].value = d}
      chosen == st.cases[CHOOSE i \in hits : \A j \in hits : i <= j].body
      copied == AssignedValue(env, u, chosen, zeroed[chosen.field], S.ctx)
  IN IF hits = {}
     THEN [out |-> [S.out EXCEPT ![st.field] = zeroed],
           ctx |-> ChppAssert(env, S.ctx, st.default # "CHPP_ASSERT(false)")]
     ELSE [out |-> [S.out EXCEPT ![st.field] = [zeroed EXCEPT ![chosen.field] = copied.out]],
           ctx |-> copied.ctx]

ExecStmt(env, t, st, S) ==
  CASE st.stmt \in {"fixed_assign", "fixed_memset"} ->
         [S EXCEPT !.out[st.field] = st.value]
    [] st.stmt = "vla" -> ExecVla(env, t, st, S)
    [] st.stmt = "union_variant" -> ExecUnion(env, t, st, S)
    [] OTHER ->
         LET r == AssignedValue(env, t, st, S.out[st.field], S.ctx)
         IN [out |-> [S.out EXCEPT ![st.field] = r.out], ctx |-> r.ctx]


\* The entry point with *outSize set before the result of chppMalloc is
\* looked at.
RunAllocation_size_first(env, root, mallocOk, before) ==
  LET fn == ItemFor(env.conv, "alloc_fn", root)
      payloadSize == EvalSize(env, fn.payloadSize)
      cursor == IF fn.has_vla_member THEN EvalSize(env, fn.vlaOffset) % Uint16 ELSE 0
      run == RunEncoder([env EXCEPT !.payloadSize = payloadSize], fn.encoder,
                        Filled(env.hdr, root, env.garbage), StartContext(cursor))
  IN [ret |-> IF ~mallocOk THEN "false" ELSE IF run.ctx.aborted THEN "aborted" ELSE "true",
      out |-> IF mallocOk THEN "buffer" ELSE "NULL",
      outSize |-> payloadSize,
      payloadSize |-> payloadSize, cursor |-> cursor,
      buffer |-> IF mallocOk THEN run.out ELSE <<>>,
      ctx |-> IF mallocOk THEN run.ctx ELSE StartContext(cursor)]

\* The allocation entry point emitted for a root, run to its return:
\* before holds what the caller had in *out and *outSize.
RunAllocation(env, root, mallocOk, before) ==
  LET fn == ItemFor(env.conv, "alloc_fn", root)
      payloadSize == EvalSize(env, fn.payloadSize)
      cursor == IF fn.has_vla_member THEN EvalSize(env, fn.vlaOffset) % Uint16 ELSE 0
      run == RunEncoder([env EXCEPT !.payloadSize = payloadSize], fn.encoder,
                        Filled(env.hdr, root, env.garbage), StartContext(cursor))
  IN IF ~mallocOk
     THEN [ret |-> "false", out |-> "NULL", outSize |-> before.outSize,
           payloadSize |-> payloadSize, cursor |-> cursor,
           buffer |-> <<>>, ctx |-> StartContext(cursor)]
     ELSE [ret |-> IF run.ctx.aborted THEN "aborted" ELSE "true",
           out |-> "buffer",
           outSize |-> IF run.ctx.aborted THEN before.outSize ELSE payloadSize,
           payloadSize |-> payloadSize, cursor |-> cursor,
           buffer |-> run.out, ctx |-> run.ctx]


\* ---------------------------------------------- what a C compiler accepts
DeclType(hdr, t, f) ==
  LET ms == ItemFor(hdr, "decl", t).members
  IN ms[CHOOSE i \in DOMAIN ms : ms[i].name = f].type

IsScalarMember(su, t, f) ==
  LET hit == FindMember(su[t].members, f)
  IN hit.found /\ ~hit.info.is_nested_type /\ hit.info.type.declarators = <<>>

\* A call names an emitted encoder and passes objects of its types.
CallCompiles(hdr, conv, st, outType) ==
  /\ HasItem(conv, "encoder", st.fn)
  /\ outType.kind = "chpp"
  /\ outType.ref = st.fn

SizeCompiles(conv, size) ==
  size.call = "sizeof_fn" => HasItem(conv, "sizeof_fn", size.ref)

StmtCompiles(hdr, conv, su, t, st) ==
  CASE st.stmt = "call" -> CallCompiles(hdr, conv, st, DeclType(hdr, t, st.field))
    [] st.stmt = "vla" ->
         /\ DeclType(hdr, t, st.field).kind = "ChppOffset"
         /\ IsScalarMember(su, t, st.length_field)
         /\ SizeCompiles(conv, st.size)
         /\ st.body.stmt = "call" => CallCompiles(hdr, conv, st.body, st.elem)
    [] st.stmt = "union_variant" ->
         /\ IsScalarMember(su, t, st.discriminator)
         /\ DeclType(hdr, t, st.field).kind = "chpp"
         /\ \A i, j \in DOMAIN st.cases : st.cases[i].value = st.cases[j].value => i = j
         /\ \A i \in DOMAIN st.cases :
              st.cases[i].body.stmt = "call" =>
                CallCompiles(hdr, conv, st.cases[i].body,
                             DeclType(hdr, DeclType(hdr, t, st.field).ref,
                                      st.cases[i].body.field))
    [] OTHER -> DeclType(hdr, t, st.field).kind \in {"plain", "override"}

\* The two generated files compile: no type is declared twice and every
\* statement refers to what was declared or emitted.
Compiles(hdr, conv, su) ==
  /\ \A i, j \in DOMAIN hdr :
       hdr[i].item = "decl" /\ hdr[j].item = "decl" /\ hdr[i].type = hdr[j].type => i = j
  /\ \A i \in DOMAIN conv :
       /\ conv[i].item = "encoder" =>
            \A k \in DOMAIN conv[i].body :
               StmtCompiles(hdr, conv, su, conv[i].type, conv[i].body[k])
       /\ conv[i].item = "alloc_fn" => SizeCompiles(conv, conv[i].payloadSize)


\* -------------------------------------------------------------- the run
NotWritten == [written |-> FALSE, doc |-> <<>>]
NoCall == [made |-> FALSE]

\* The orderer before _sorted_structs is followed step by step.
NotSorting == [phase |-> "idle", nodes |-> <<>>, stack |-> <<>>, visited |-> {},
               result |-> <<>>]

Init ==
  /\ \E r \in Runs : input = r[1] /\ host = r[2]
  /\ sort = NotSorting
  /\ structs_and_unions = <<>>
  /\ keys = <<>>
  /\ pc = "start"
  /\ err = NoErr
  /\ log = <<>>
  /\ header_file = NotWritten
  /\ conversion_file = NotWritten
  /\ call = NoCall
  /\ twin = NoCall

\* ApiParser(file): the annotations are indexed and the type graph built.
ParseApi ==
  /\ pc = "start"
  /\ With(ParseStructsAndUnions,
          LAMBDA parsed :
            /\ structs_and_unions' = IF Failed(parsed) THEN <<>> ELSE parsed.su
            /\ keys' = IF Failed(parsed) THEN <<>> ELSE parsed.keys
            /\ err' = parsed.err
            /\ pc' = IF Failed(parsed) THEN "failed" ELSE "parsed"
            /\ log' = IF Failed(parsed) THEN log ELSE Append(log, [step |-> "parse"]))
  /\ UNCHANGED <<sort, input, host, header_file, conversion_file, call, twin>>

\* generate_header_file: the header is written only when the whole string
\* was generated.
GenerateHeaderFile ==
  /\ pc = "parsed"
  /\ With(generate_header_string(structs_and_unions, host),
          LAMBDA G :
            /\ log' = log \o G.log
            /\ err' = G.err
            /\ pc' = IF Failed(G) THEN "failed" ELSE "header_done"
            /\ header_file' = IF Failed(G) THEN header_file
                              ELSE [written |-> TRUE, doc |-> G.out])
  /\ UNCHANGED <<sort, input, host, structs_and_unions, keys, conversion_file, call, twin>>

\* generate_conversion_file.
GenerateConversionFile ==
  /\ pc = "header_done"
  /\ With(generate_conversion_string(structs_and_unions, host),
          LAMBDA G :
            /\ log' = log \o G.log
            /\ err' = G.err
            /\ pc' = IF Failed(G) THEN "failed" ELSE "done"
            /\ conversion_file' = IF Failed(G) THEN conversion_file
                                  ELSE [written |-> TRUE, doc |-> G.out])
  /\ UNCHANGED <<sort, input, host, structs_and_unions, keys, header_file, call, twin>>

\* ------------------------------------------------- calls of the generated code
CountValues == {0, 1, 3, 16383}
DiscriminatorValues == {1, 2, 3, 4}

\* The descriptor's length field is a uint16_t or, in a build that widens
\* it, holds every product the inputs reach.
Wide == Uint16 * (Uint16 \div 4)
LengthWidths == {Uint16, Wide}

HasDirectVla(su, t) ==
  \E i \in DOMAIN su[t].members : HasAnnotation(su[t].members[i].annotations, "var_len_array")

MemberNamesOf(t) == {input.defs[t].members[i].name : i \in DOMAIN input.defs[t].members}

\* A CHRE instance of every type: counts gives the count of each type,
\* disc the discriminator, v every other field.
MkInstance(counts, disc, v) ==
  [t \in Types |->
     [f \in MemberNamesOf(t) |->
        CASE f = "count" -> counts[t]
          [] f = "kind" -> disc
          [] OTHER -> v]]

\* An element encoder that takes the payload parameters is run once per
\* element: the counts are kept small when the code has one.
ElementsClaim(conv) ==
  \E i \in DOMAIN conv :
     /\ conv[i].item = "encoder"
     /\ \E k \in DOMAIN conv[i].body :
          /\ conv[i].body[k].stmt = "vla"
          /\ conv[i].body[k].body.vla_params

Instances(su, conv) ==
  {MkInstance(counts, disc, 5) :
     counts \in {c \in [Types -> CountValues] :
                   /\ \A t \in Types : (t \notin DOMAIN su \/ ~HasDirectVla(su, t)) => c[t] = 0
                   /\ ElementsClaim(conv) => \A t \in Types : c[t] <= 3},
     disc \in IF \E t \in DOMAIN su : "kind" \in MemberNamesOf(t)
              THEN DiscriminatorValues ELSE {0}}

Environment(inst, assertions, lengthMod, garbage) ==
  [inst |-> inst, assertions |-> assertions, lengthMod |-> lengthMod, garbage |-> garbage,
   payloadSize |-> 0, su |-> structs_and_unions,
   hdr |-> header_file.doc, conv |-> conversion_file.doc]

CallerBefore == [out |-> "old", outSize |-> 77]

\* One call of a root's allocation entry point.  The calls of a program are
\* independent of each other: a behaviour follows one of them.
CallAllocation ==
  /\ pc = "done"
  /\ ~call.made /\ ~twin.made
  /\ Compiles(header_file.doc, conversion_file.doc, structs_and_unions)
  /\ \E root \in Range(input.root_structs),
        inst \in Instances(structs_and_unions, conversion_file.doc),
        mallocOk \in BOOLEAN, assertions \in BOOLEAN, lengthMod \in LengthWidths :
        call' = [made |-> TRUE, root |-> root, inst |-> inst, mallocOk |-> mallocOk,
                 assertions |-> assertions, lengthMod |-> lengthMod,
                 before |-> CallerBefore,
                 res |-> RunAllocation(Environment(inst, assertions, lengthMod, 170),
                                       root, mallocOk, CallerBefore)]
  /\ UNCHANGED <<sort, input, host, structs_and_unions, keys, pc, err, log, header_file,
                 conversion_file, twin>>

\* The union_variant blocks of the emitted encoders, with their types.
UnionUses(conv) ==
  UNION {{[holder |-> conv[i].type, st |-> conv[i].body[k]] :
            k \in {l \in DOMAIN conv[i].body : conv[i].body[l].stmt = "union_variant"}} :
         i \in {j \in DOMAIN conv : conv[j].item = "encoder"}}

\* The union member a block copies for an instance ("" when the
\* discriminator is not mapped).
Selected(use, inst) ==
  LET d == inst[use.holder][use.st.discriminator]
      hits == {i \in DOMAIN use.st.cases : use.st.cases[i].value = d}
  IN IF hits = {} THEN ""
     ELSE use.st.cases[CHOOSE i \in hits : \A j \in hits : i <= j].body.field

\* The fields of an instance that lie in union members its discriminators
\* do not select: the members themselves and, for a member that is a
\* struct, the fields of that struct.
Inactive(su, conv, inst) ==
  LET members == UNION {{<<NestedTypeOf(su, use.holder, use.st.field), f>> :
                           f \in MemberNamesOf(NestedTypeOf(su, use.holder, use.st.field))
                                 \ {Selected(use, inst)}} :
                        use \in UnionUses(conv)}
      inner(p) == FindMember(su[p[1]].members, p[2]).info
  IN members \cup
     UNION {{<<inner(p).nested_type_name, g>> : g \in MemberNamesOf(inner(p).nested_type_name)} :
            p \in {q \in members : inner(q).is_nested_type}}

\* Two calls of a root's allocation entry point on instances that differ
\* only in union members their discriminator does not select, each on
\* fresh memory with its own garbage.
CallTwin ==
  /\ pc = "done"
  /\ ~call.made /\ ~twin.made
  /\ Compiles(header_file.doc, conversion_file.doc, structs_and_unions)
  /\ UnionUses(conversion_file.doc) # {}
  /\ \E root \in Range(input.root_structs),
        inst \in Instances(structs_and_unions, conversion_file.doc),
        assertions \in BOOLEAN, g1 \in {170}, g2 \in {170, 85} :
        LET off == Inactive(structs_and_unions, conversion_file.doc, inst)
            other == [t \in Types |->
                        [f \in MemberNamesOf(t) |->
                           IF <<t, f>> \in off THEN 9 ELSE inst[t][f]]]
        IN twin' = [made |-> TRUE, root |-> root, inst |-> inst, other |-> other,
                    mapped |-> \A use \in UnionUses(conversion_file.doc) :
                                  Selected(use, inst) # "",
                    first |-> RunAllocation(Environment(inst, assertions, Uint16, g1),
                                            root, TRUE, CallerBefore),
                    second |-> RunAllocation(Environment(other, assertions, Uint16, g2),
                                             root, TRUE, CallerBefore)]
  /\ UNCHANGED <<sort, input, host, structs_and_unions, keys, pc, err, log, header_file,
                 conversion_file, call>>

\* ----------------------------------------------------- the specifications
Next == ParseApi \/ GenerateHeaderFile \/ GenerateConversionFile

\* The generator alone, over every family of inputs.
Spec == Init /\ [][Next]_vars

InitRun ==
  /\ Init
  /\ input \in RunInputs
  /\ host = ReferenceHost

NextRun == Next \/ CallAllocation \/ CallTwin

\* The generator followed by calls of the code it generated.
SpecRun == InitRun /\ [][NextRun]_vars

\* ------------------------------------------ the orderer, one step at a time
\* The deepest nesting of calls the interpreter allows before it raises
\* RecursionError, scaled to the graphs of the bounds.
RecursionLimit == 6

\* Graphs of structs linked through pointers, cycles and self references
\* included: every type has a count and, for each (t, d) in E, t has a
\* member 'struct d *' that a rewrite_type annotation turns into a handle.
\* No type has a variable-length array.
LinkedInput(E, roots) ==
  [root_structs |-> roots,
   defs |-> [t \in Types |->
               [kind |-> "struct", name |-> GoodName,
                members |-> <<CountField>>
                            \o With(SortedSeq({p[2] : p \in {q \in E : q[1] = t}}),
                                    LAMBDA ds :
                                      [i \in DOMAIN ds |->
                                         Member(NestedField(ds[i]),
                                                NestedSpec("struct", ds[i]), PtrDecl)])]],
   struct_info |-> [t \in Types |->
                      [name |-> t,
                       annotations |->
                         With(SortedSeq({p[2] : p \in {q \in E : q[1] = t}}),
                              LAMBDA ds :
                                [i \in DOMAIN ds |->
                                   RewriteType(NestedField(ds[i]), "uint32_t")])]]]

LinkChoices ==
  {c \in RootLists \X {F \in SUBSET (Types \X Types) : Cardinality(F) <= MaxEdges} :
     With(ReachFrom(Range(c[1]), c[2]), LAMBDA R : \A p \in c[2] : p[1] \in R)}

LinkedInputs == {LinkedInput(c[2], c[1]) : c \in LinkChoices}

InitSort ==
  /\ input \in LinkedInputs
  /\ host = ReferenceHost
  /\ sort = NotSorting
  /\ structs_and_unions = <<>>
  /\ keys = <<>>
  /\ pc = "start"
  /\ err = NoErr
  /\ log = <<>>
  /\ header_file = NotWritten
  /\ conversion_file = NotWritten
  /\ call = NoCall
  /\ twin = NoCall

\* 'if dep not in visited'.
NotVisited_always(dep, visited) == TRUE

NotVisited(dep, visited) == dep \notin visited

\* A call of sort_helper(collection, key): its frame holds the key and the
\* dependencies its for loop has yet to look at.
Frame(collection, key) ==
  [key |-> key, deps |-> SortedSeq(collection[key].dependencies)]

Top == sort.stack[Len(sort.stack)]
Below == SubSeq(sort.stack, 1, Len(sort.stack) - 1)

\* _sorted_structs is called: result and visited are empty.
CallSortedStructs ==
  /\ pc = "parsed"
  /\ sort.phase = "idle"
  /\ sort' = [phase |-> "running", nodes |-> SortedSeq(Range(input.root_structs)),
              stack |-> <<>>, visited |-> {}, result |-> <<>>]
  /\ UNCHANGED <<input, host, structs_and_unions, keys, pc, err, log, header_file,
                 conversion_file, call, twin>>

\* 'for node in sorted(root_nodes): sort_helper(collection, node)'.
SortRoot ==
  /\ sort.phase = "running"
  /\ sort.stack = <<>>
  /\ sort.nodes # <<>>
  /\ sort' = [sort EXCEPT !.nodes = Tail(@),
                          !.stack = <<Frame(structs_and_unions, Head(sort.nodes))>>]
  /\ UNCHANGED <<input, host, structs_and_unions, keys, pc, err, log, header_file,
                 conversion_file, call, twin>>

\* The for loop of sort_helper finds a dependency not yet visited: it is
\* added to visited and sort_helper is called on it.  A call nested deeper
\* than the interpreter allows raises RecursionError instead.
VisitDependency ==
  /\ sort.phase = "running"
  /\ sort.stack # <<>>
  /\ Top.deps # <<>>
  /\ NotVisited(Head(Top.deps), sort.visited)
  /\ IF Len(sort.stack) >= RecursionLimit
     THEN /\ sort' = [sort EXCEPT !.phase = "raised"]
          /\ pc' = "failed"
          /\ err' = Error("RecursionError", Head(Top.deps), "")
     ELSE /\ sort' = [sort EXCEPT
                        !.visited = @ \cup {Head(Top.deps)},
                        !.stack = Append(Append(Below, [Top EXCEPT !.deps = Tail(@)]),
                                         Frame(structs_and_unions, Head(Top.deps)))]
          /\ UNCHANGED <<pc, err>>
  /\ UNCHANGED <<input, host, structs_and_unions, keys, log, header_file,
                 conversion_file, call, twin>>

\* The for loop passes over a dependency that is in visited.
SkipDependency ==
  /\ sort.phase = "running"
  /\ sort.stack # <<>>
  /\ Top.deps # <<>>
  /\ ~NotVisited(Head(Top.deps), sort.visited)
  /\ sort' = [sort EXCEPT !.stack = Append(Below, [Top EXCEPT !.deps = Tail(@)])]
  /\ UNCHANGED <<input, host, structs_and_unions, keys, pc, err, log, header_file,
                 conversion_file, call, twin>>

\* The for loop is over: 'result.append(key)' and sort_helper returns.
AppendKey ==
  /\ sort.phase = "running"
  /\ sort.stack # <<>>
  /\ Top.deps = <<>>
  /\ sort' = [sort EXCEPT !.result = Append(@, Top.key), !.stack = Below]
  /\ UNCHANGED <<input, host, structs_and_unions, keys, pc, err, log, header_file,
                 conversion_file, call, twin>>

\* 'return result'.
ReturnSortedStructs ==
  /\ sort.phase = "running"
  /\ sort.stack = <<>>
  /\ sort.nodes = <<>>
  /\ sort' = [sort EXCEPT !.phase = "returned"]
  /\ log' = Append(log, [step |-> "sorted_structs", order |-> sort.result])
  /\ UNCHANGED <<input, host, structs_and_unions, keys, pc, err, header_file,
                 conversion_file, call, twin>>

\* The steps of _sorted_structs.
SortStep ==
  \/ CallSortedStructs
  \/ SortRoot
  \/ VisitDependency
  \/ SkipDependency
  \/ AppendKey
  \/ ReturnSortedStructs

NextSort == ParseApi \/ SortStep

\* The parser and then the orderer: the interpreter runs the orderer on
\* until it returns or raises.
SpecSort == InitSort /\ [][NextSort]_vars /\ WF_vars(SortStep)

\* ================================================================ claims
HasStep(name) == \E i \in DOMAIN log : log[i].step = name

\* The lists the topological orderer returned in this run.
SortedOrders == {log[i].order : i \in {j \in DOMAIN log : log[j].step = "sorted_structs"}}

\* The declarations as the resolver gave them, read without the parser.
DeclaredDeps(t) ==
  {input.defs[t].members[i].type.type_spec.ref :
     i \in {j \in DOMAIN input.defs[t].members :
              input.defs[t].members[j].type.type_spec.kw \in {"struct", "union"}}}

DeclaredEdges == {p \in Types \X Types : p[2] \in DeclaredDeps(p[1])}

DeclaredVla(t) ==
  \E i \in DOMAIN input.struct_info :
     /\ input.struct_info[i].name = t
     /\ \E k \in DOMAIN input.struct_info[i].annotations :
          /\ input.struct_info[i].annotations[k].annotation = "var_len_array"
          /\ input.struct_info[i].annotations[k].field \in MemberNamesOf(t)

\* C1: in the list _sorted_structs returns, every dependency of a type T
\* occurs at a position before every position at which T occurs.
C1_DependenciesFirst ==
  \A r \in SortedOrders :
     \A p \in DOMAIN r :
        \A d \in DeclaredDeps(r[p]) : \E q \in 1..(p - 1) : r[q] = d

\* A list of three or more names was returned in which a type with two
\* dependencies occurs and a root that another root contains occurs twice.
C1_Witness ==
  \E r \in SortedOrders :
     /\ Len(r) >= 3
     /\ \E p \in DOMAIN r : Cardinality(DeclaredDeps(r[p])) >= 2
     /\ \E p, q \in DOMAIN r : p # q /\ r[p] = r[q]

\* C2: once the graph is built, has_vla_member of a type is true exactly
\* when the type or a type it reaches over dependency edges has a member
\* annotated var_len_array.
C2_HasVlaIsTransitive ==
  HasStep("parse") =>
    \A t \in DOMAIN structs_and_unions :
       structs_and_unions[t].has_vla_member
         <=> \E u \in ReachFrom({t}, DeclaredEdges) : DeclaredVla(u)

\* The flag reached a type two edges above the annotated member.
C2_Witness ==
  /\ HasStep("parse")
  /\ \E t \in DOMAIN structs_and_unions :
       /\ structs_and_unions[t].has_vla_member
       /\ ~DeclaredVla(t)
       /\ \A d \in DeclaredDeps(t) : ~DeclaredVla(d)

Ended == pc \in {"done", "failed"}

\* The types the roots reach that the parser knows.
KnownReached == {t \in Reached(input) : input.defs[t].kind # "none"}

AnnotationKinds(t, f) ==
  UNION {{input.struct_info[i].annotations[k].annotation :
            k \in {l \in DOMAIN input.struct_info[i].annotations :
                     input.struct_info[i].annotations[l].field = f}} :
         i \in {j \in DOMAIN input.struct_info : input.struct_info[j].name = t}}

\* The raw-pointer fields of reachable types that carry neither a
\* rewrite_type nor a var_len_array annotation.
UnannotatedPointers ==
  {p \in KnownReached \X {"p", "items", "m1", "m2", "m3"} :
     /\ p[2] \in MemberNamesOf(p[1])
     /\ \E i \in DOMAIN input.defs[p[1]].members :
          /\ input.defs[p[1]].members[i].name = p[2]
          /\ input.defs[p[1]].members[i].type.declarators = PtrDecl
     /\ AnnotationKinds(p[1], p[2]) \cap {"rewrite_type", "var_len_array"} = {}}

\* Nothing but the pointer can stop the run: every reachable type is known
\* and has a name the generator accepts.
OnlyPointersWrong ==
  /\ KnownReached = Reached(input)
  /\ \A t \in KnownReached : input.defs[t].name.chre \/ "rename_type" \in AnnotationKinds(t, ".")

\* C3 as stated: a reachable pointer field without rewrite_type and
\* var_len_array makes the run fail with UnannotatedPointerError naming the
\* field during graph building, before the orderer has run.  (Read with
\* nothing else wrong in the input.)
C3_Original ==
  (Ended /\ UnannotatedPointers # {} /\ OnlyPointersWrong) =>
    /\ err.kind = "UnannotatedPointer"
    /\ \E p \in UnannotatedPointers : p[2] = err.field
    /\ ~HasStep("parse")
    /\ ~HasStep("sorted_structs")

\* C3 amended: such a field makes the run fail before anything is written;
\* unless an unknown type or a name without the 'chre' prefix stops it
\* first, the error is UnannotatedPointerError naming such a field, and it
\* is raised while the header is generated, after graph building and the
\* orderer have completed.
C3_PointerRejectedInHeader ==
  (Ended /\ UnannotatedPointers # {}) =>
    /\ pc = "failed"
    /\ ~header_file.written /\ ~conversion_file.written
    /\ err.kind \in {"UnannotatedPointer", "NamingConvention", "UnknownType"}
    /\ OnlyPointersWrong => err.kind = "UnannotatedPointer"
    /\ err.kind = "UnannotatedPointer" =>
         /\ \E p \in UnannotatedPointers : p[2] = err.field
         /\ HasStep("parse")
         /\ HasStep("sorted_structs")

\* A run stopped by the pointer of a type nested below the root, with the
\* orderer's list already computed.
C3_Witness ==
  /\ pc = "failed"
  /\ err.kind = "UnannotatedPointer"
  /\ \E p \in UnannotatedPointers : p[2] = err.field /\ p[1] \notin Range(input.root_structs)
  /\ HasStep("sorted_structs")

\* ------------------------------------------------------ encoded size (C4)
RECURSIVE SeqSum(_)
SeqSum(q) == IF q = <<>> THEN 0 ELSE Head(q) + SeqSum(Tail(q))

RECURSIVE SeqMax(_)
SeqMax(q) == IF q = <<>> THEN 0 ELSE Max(Head(q), SeqMax(Tail(q)))

RECURSIVE DeclaredSize(_)
\* The size of one declared element of a member: a nested type or a plain one.
DeclaredElementSize(m) ==
  IF m.type.type_spec.kw \in {"struct", "union"}
  THEN DeclaredSize(m.type.type_spec.ref)
  ELSE ScalarSize(m.type.type_spec.base)

\* The static size of the packed layout of a type, read from the
\* declarations: a pointer member becomes a descriptor of two uint16_t.
DeclaredSize(t) ==
  LET ms == input.defs[t].members
      sizes == [i \in DOMAIN ms |->
                  IF ms[i].type.declarators = PtrDecl
                  THEN ScalarSize("uint16_t") + ScalarSize("uint16_t")
                  ELSE IF ms[i].type.declarators = NoDecl
                       THEN DeclaredElementSize(ms[i])
                       ELSE DeclaredElementSize(ms[i]) * ms[i].type.declarators[1].n]
  IN IF input.defs[t].kind = "union" THEN SeqMax(sizes) ELSE SeqSum(sizes)

\* The var_len_array annotations written for the members of t.
DeclaredVlaAnnotations(t) ==
  LET anns == AnnotationsFrom(input.struct_info, t, "items")
              \o AnnotationsFrom(input.struct_info, t, "more")
              \o AnnotationsFrom(input.struct_info, t, "m1")
              \o AnnotationsFrom(input.struct_info, t, "m2")
              \o AnnotationsFrom(input.struct_info, t, "m3")
  IN SelectSeq(anns, LAMBDA a : a.annotation = "var_len_array" /\ a.field \in MemberNamesOf(t))

DeclaredMember(t, f) ==
  input.defs[t].members[CHOOSE i \in DOMAIN input.defs[t].members :
                           input.defs[t].members[i].name = f]

\* Length field times element size, summed over the direct var_len_array
\* members of t.
DeclaredVlaBytes(t, inst) ==
  LET anns == DeclaredVlaAnnotations(t)
  IN SeqSum([i \in DOMAIN anns |->
               inst[t][anns[i].length_field]
                 * DeclaredElementSize(DeclaredMember(t, anns[i].field))])

\* C4: the size the allocation entry point computes for a root instance is
\* the static size of the root's layout plus, for each direct var_len_array
\* member, its length field times its element size (the static size alone
\* when the root has no such member).
C4_EncodedSize ==
  call.made =>
    call.res.payloadSize
      = DeclaredSize(call.root) + DeclaredVlaBytes(call.root, call.inst)

\* A root with a uint16_t count, a nested struct and one array of 3
\* uint32_t: the size is the static size plus 12.
C4_Witness ==
  /\ call.made
  /\ Len(DeclaredVlaAnnotations(call.root)) = 1
  /\ DeclaredDeps(call.root) # {}
  /\ call.inst[call.root]["count"] = 3
  /\ DeclaredElementSize(DeclaredMember(call.root, "items")) = 4
  /\ call.res.payloadSize = DeclaredSize(call.root) + 12

\* --------------------------------------------- variable-length members (C5, C6)
Events == IF call.made THEN call.res.ctx.events ELSE <<>>

Encoded == call.made /\ call.mallocOk

\* C5 as stated: a var_len_array member of the root with N > 0 elements of
\* size E whose region fits the buffer gets the descriptor length N*E and
\* offset the cursor before it (the static size for the first such member),
\* N elements are written at that offset and the cursor moves by N*E.
C5_Original ==
  Encoded =>
    \A i \in DOMAIN Events :
       LET e == Events[i]
       IN (e.type = call.root /\ e.n > 0 /\ e.before + e.n * e.esize <= e.payloadSize) =>
            /\ e.stored = [length |-> e.n * e.esize, offset |-> e.before]
            /\ e.written = e.n
            /\ e.writeAt = e.before
            /\ e.after = e.before + e.n * e.esize
            /\ (\A j \in 1..(i - 1) : Events[j].type # call.root) =>
                 e.before = DeclaredSize(call.root)

C7_Original ==
  (call.made /\ ~call.mallocOk) =>
    /\ call.res.ret = "false"
    /\ call.res.out = call.before.out
    /\ call.res.outSize = call.before.outSize

\* C7 amended: when the allocation fails the entry point returns false and
\* *outSize holds what it held before the call; *out has been written: it
\* holds the NULL that chppMalloc returned.  Nothing is encoded.
C7_FailureWritesNullOut ==
  (call.made /\ ~call.mallocOk) =>
    /\ call.res.ret = "false"
    /\ call.res.out = "NULL"
    /\ call.res.outSize = call.before.outSize
    /\ call.res.buffer = <<>>
    /\ call.res.ctx.events = <<>>

\* A failed allocation for an instance whose size is not the caller's old
\* *outSize.
C7_Witness ==
  /\ call.made /\ ~call.mallocOk
  /\ call.res.ret = "false"
  /\ call.res.out = "NULL" /\ call.before.out = "old"
  /\ call.res.payloadSize # call.before.outSize
  /\ call.res.outSize = call.before.outSize

\* ------------------------------------------------------- unions (C8, C9)
\* C8: every union_variant block zeroes the union before its switch, and
\* two instances with the same mapped discriminator that differ only in
\* union members the discriminator does not select are encoded to the same
\* bytes, whatever the fresh buffers held.
C8_InactiveMembersDoNotShow ==
  /\ conversion_file.written =>
       \A use \in UnionUses(conversion_file.doc) : use.st.memset
  /\ (twin.made /\ twin.mapped) =>
       /\ twin.first.ret = twin.second.ret
       /\ twin.first.outSize = twin.second.outSize
       /\ twin.first.buffer = twin.second.buffer

\* The discriminator selects the one-byte member a, the two instances
\* differ in the members b and c, and the two outputs are the same with b
\* zero.
C8_Witness ==
  /\ twin.made /\ twin.mapped
  /\ twin.inst[3]["kind"] = 1
  /\ twin.inst[2]["b"] # twin.other[2]["b"]
  /\ twin.inst[1]["x"] # twin.other[1]["x"]
  /\ twin.inst[2]["a"] = twin.other[2]["a"]
  /\ twin.first.ret = "true"
  /\ twin.first.buffer = twin.second.buffer
  /\ twin.first.buffer["u"]["a"] = twin.inst[2]["a"]
  /\ twin.first.buffer["u"]["b"] = 0

\* The union_variant annotations written for the members of t.
DeclaredUnionVariants(t) ==
  SelectSeq(AnnotationsFrom(input.struct_info, t, "u"),
            LAMBDA a : a.annotation = "union_variant")

MappingKeys(a) == {a.mapping[i][1] : i \in DOMAIN a.mapping}
MappingFields(a) == {a.mapping[i][2] : i \in DOMAIN a.mapping}

\* The member the mapping associates with a key.
MappedMember(a, d) ==
  a.mapping[CHOOSE i \in DOMAIN a.mapping : a.mapping[i][1] = d][2]

\* Every mapping of a reachable type names members of its union only.
MappingsNameMembers ==
  \A t \in KnownReached :
     \A i \in DOMAIN DeclaredUnionVariants(t) :
        MappingFields(DeclaredUnionVariants(t)[i])
          \subseteq MemberNamesOf(DeclaredMember(t, "u").type.type_spec.ref)

HasUnionVariant == \E t \in KnownReached : DeclaredUnionVariants(t) # <<>>

\* The fixed_value written for a field of t (none: the field is copied).
DeclaredFixed(t, f) ==
  SelectSeq(AnnotationsFrom(input.struct_info, t, f), LAMBDA a : a.annotation = "fixed_value")

\* What a copied union member holds: the source member, or for a member
\* that is a struct its fields, each fixed or copied.
CopiedMember(U, m, inst) ==
  LET spec == DeclaredMember(U, m).type.type_spec
  IN IF spec.kw = "struct"
     THEN [g \in MemberNamesOf(spec.ref) |->
             IF DeclaredFixed(spec.ref, g) # <<>> THEN DeclaredFixed(spec.ref, g)[1].value
             ELSE inst[spec.ref][g]]
     ELSE inst[U][m]

ZeroMember(U, m) ==
  LET spec == DeclaredMember(U, m).type.type_spec
  IN IF spec.kw = "struct" THEN [g \in MemberNamesOf(spec.ref) |-> 0] ELSE 0

\* Every reachable type is known and has a name with the 'chre' prefix and
\* the service after it.
NamesAccepted ==
  /\ KnownReached = Reached(input)
  /\ \A t \in KnownReached : input.defs[t].name = GoodName

\* C9: a union_variant whose mapping names members of the union only does
\* not stop the generator (with type names it accepts the run completes);
\* in the encoder a discriminator that is no key of the mapping reaches the
\* failing assertion with no member copied (the union is all zero), and a
\* key copies the member mapped to it and no other.
C9_UnionVariantDispatch ==
  /\ (Ended /\ HasUnionVariant /\ MappingsNameMembers) =>
       /\ err.kind # "InvalidMapping"
       /\ NamesAccepted /\ UnannotatedPointers = {} => pc = "done"
  /\ Encoded =>
       \A i \in DOMAIN DeclaredUnionVariants(call.root) :
          LET a == DeclaredUnionVariants(call.root)[i]
              U == DeclaredMember(call.root, a.field).type.type_spec.ref
              d == call.inst[call.root][a.discriminator]
              got == call.res.buffer[a.field]
          IN IF d \notin MappingKeys(a)
             THEN /\ call.res.ctx.asserted
                  /\ call.assertions => call.res.ret = "aborted"
                  /\ \A m \in MemberNamesOf(U) : got[m] = ZeroMember(U, m)
             ELSE /\ ~call.res.ctx.asserted
                  /\ call.res.ret = "true"
                  /\ \A m \in MemberNamesOf(U) :
                        got[m] = IF m = MappedMember(a, d) THEN CopiedMember(U, m, call.inst)
                                 ELSE ZeroMember(U, m)

\* The mapping {1: a, 2: b} met with the discriminator 3 in a build whose
\* assertions stop the program.
C9_Witness ==
  /\ Encoded /\ call.assertions
  /\ DeclaredUnionVariants(call.root) # <<>>
  /\ MappingKeys(DeclaredUnionVariants(call.root)[1]) = {1, 2}
  /\ call.inst[call.root]["kind"] = 3
  /\ call.res.ctx.asserted
  /\ call.res.ret = "aborted"
  /\ call.res.buffer["u"]["a"] = 0

\* -------------------------------------------- nested variable length (C10)
\* A reachable type has a var_len_array member whose element type is a
\* nested type that has, or reaches, a var_len_array member.
NestedVla ==
  \E t \in KnownReached :
     \E i \in DOMAIN DeclaredVlaAnnotations(t) :
        LET spec == DeclaredMember(t, DeclaredVlaAnnotations(t)[i].field).type.type_spec
        IN /\ spec.kw \in {"struct", "union"}
           /\ \E u \in ReachFrom({spec.ref}, DeclaredEdges) : DeclaredVla(u)

\* C10 as stated: a reachable type with a var_len_array member whose
\* element type is itself variable-length makes the run fail with
\* UnsupportedNestingError, for a root and for a type below a root.  (Read
\* with nothing else wrong in the input.)
C10_Original ==
  (Ended /\ NestedVla /\ NamesAccepted /\ UnannotatedPointers = {}) =>
    /\ pc = "failed"
    /\ err.kind = "UnsupportedNesting"

\* ------------------------------------------------ output of a failed run (C11)
\* The errors a generation step raises.
GenerationErrors ==
  {"UnknownType", "UnannotatedPointer", "NamingConvention", "StructureNaming",
   "UnsupportedNesting"}

\* C11 as stated: a run that ends with UnknownTypeError,
\* UnannotatedPointerError, NamingConventionError, StructureNamingError or
\* UnsupportedNestingError has written neither the header nor the
\* conversion file.
C11_Original ==
  (pc = "failed" /\ err.kind \in GenerationErrors) =>
    /\ ~header_file.written
    /\ ~conversion_file.written

\* ------------------------------------------------ two runs, one input (C12)
\* The documents the run of the same input gives on the reference machine.
ReferenceHeader == generate_header_string(structs_and_unions, ReferenceHost).out
ReferenceConversion == generate_conversion_string(structs_and_unions, ReferenceHost).out

\* Two documents are the same but for their notice.
SameButNotice(a, b) ==
  /\ Len(a) = Len(b)
  /\ \A i \in DOMAIN a : a[i] # b[i] => a[i].item = "notice" /\ b[i].item = "notice"

NoticeOf(doc) == doc[CHOOSE i \in DOMAIN doc : doc[i].item = "notice"]

RECURSIVE FirstHandling(_)
FirstHandling(anns) ==
  IF anns = <<>> THEN [annotation |-> "default"]
  ELSE IF Head(anns).annotation \in {"fixed_value", "var_len_array", "union_variant"}
       THEN Head(anns)
       ELSE FirstHandling(Tail(anns))

DeclaredHandling(t, f) == FirstHandling(AnnotationsFrom(input.struct_info, t, f))

ReachedStructs == {t \in KnownReached : input.defs[t].kind = "struct"}

NestedMemberNames(t) ==
  {input.defs[t].members[i].name :
     i \in {j \in DOMAIN input.defs[t].members :
              input.defs[t].members[j].type.type_spec.kw \in {"struct", "union"}}}

\* The types whose encoder a reachable struct calls by name: the type of a
\* nested member it copies or loops over, and the type of a nested member
\* of a union that one of its union_variant mappings names.
CalledByName ==
  UNION {{DeclaredMember(t, f).type.type_spec.ref :
            f \in {g \in NestedMemberNames(t) :
                     DeclaredHandling(t, g).annotation \in {"default", "var_len_array"}}} :
         t \in ReachedStructs}
  \cup
  UNION {UNION {{DeclaredMember(DeclaredMember(t, f).type.type_spec.ref, g).type.type_spec.ref :
                   g \in NestedMemberNames(DeclaredMember(t, f).type.type_spec.ref)
                         \cap MappingFields(DeclaredHandling(t, f))} :
                f \in {h \in NestedMemberNames(t) :
                         DeclaredHandling(t, h).annotation = "union_variant"}} :
         t \in ReachedStructs}

\* The types a function name is made of: the roots, the structs the roots
\* reach and the types whose encoder is called by name.
NamedInFunctions == Range(input.root_structs) \cup ReachedStructs \cup CalledByName

NameMatches(t) == input.defs[t].name.chre /\ input.defs[t].name.svc

\* Nothing but a name without the service part can stop the run.
OnlyNamesWrong ==
  /\ OnlyPointersWrong
  /\ UnannotatedPointers = {}
  /\ ~NestedVla
  /\ MappingsNameMembers

\* C13 as stated: the run fails with StructureNamingError exactly when the
\* name of some root does not have the form chre<Service><Core>, whatever
\* the names of the types below the roots.  (Read with nothing else wrong
\* in the input.)
C13_Original ==
  (Ended /\ OnlyNamesWrong) =>
    (err.kind = "StructureNaming"
       <=> \E t \in Range(input.root_structs) : ~NameMatches(t))

\* C13 amended: the run fails with StructureNamingError exactly when the
\* name of some root, of some struct the roots reach, or of some type whose
\* encoder a reachable struct calls by name does not have that form; the
\* error names such a type.  A rename_type annotation does not exempt a
\* type.
C13_EveryNamedTypeChecked ==
  /\ err.kind = "StructureNaming" =>
       err.type \in NamedInFunctions /\ ~NameMatches(err.type)
  /\ (Ended /\ OnlyNamesWrong) =>
       (err.kind = "StructureNaming" <=> \E t \in NamedInFunctions : ~NameMatches(t))

\* A run whose root has a conforming name, stopped by the name of a struct
\* below the root after the header was written.
C13_Witness ==
  /\ pc = "failed" /\ err.kind = "StructureNaming"
  /\ OnlyNamesWrong
  /\ \A t \in Range(input.root_structs) : NameMatches(t)
  /\ err.type \notin Range(input.root_structs)
  /\ header_file.written

\* --------------------------------------------- the size is enough (C14)
\* C14 as stated: for a root with has_vla_member, in a buffer of exactly
\* the size the size function returned, every var_len_array member the
\* encoder and the encoders it delegates to encode passes its bounds check:
\* cursor + length <= payloadSize.
C14_Original ==
  (Encoded /\ structs_and_unions[call.root].has_vla_member) =>
    \A i \in DOMAIN Events :
       Events[i].before + Events[i].length <= call.res.payloadSize

\* --------------------------------------------- the order is a permutation (C15)
\* C15 as stated: the list the orderer returns holds every type the roots
\* reach exactly once, also when a root is a dependency of another root.
C15_Original ==
  \A r \in SortedOrders :
     /\ Range(r) = Reached(input)
     /\ \A p, q \in DOMAIN r : r[p] = r[q] => p = q

\* --------------------------------------------- encoders, once and in order (C16)
\* The types of the encoders of the conversion file, in emission order.
EncoderOrder ==
  [i \in DOMAIN ItemsOf(conversion_file.doc, "encoder") |->
     ItemsOf(conversion_file.doc, "encoder")[i].type]

\* C16: in the conversion file of a run the encoder of every struct the
\* roots reach is emitted exactly once, after the encoders of all structs
\* it reaches over dependency edges (through unions too), and no encoder
\* is emitted for a union.
C16_EncodersOnceDependenciesFirst ==
  conversion_file.written =>
    /\ Range(EncoderOrder) = ReachedStructs
    /\ \A p, q \in DOMAIN EncoderOrder : EncoderOrder[p] = EncoderOrder[q] => p = q
    /\ \A p \in DOMAIN EncoderOrder :
          \A d \in (ReachFrom({EncoderOrder[p]}, DeclaredEdges) \cap ReachedStructs)
                     \ {EncoderOrder[p]} :
             \E q \in 1..(p - 1) : EncoderOrder[q] = d

\* Two roots that contain the same struct: its encoder is emitted once,
\* before the encoders of both roots.
C16_Witness ==
  /\ conversion_file.written
  /\ Len(input.root_structs) = 2
  /\ \E d \in ReachedStructs \ Range(input.root_structs) :
        /\ \A r \in Range(input.root_structs) : d \in DeclaredDeps(r)
        /\ EncoderOrder[1] = d
  /\ Len(EncoderOrder) = 3

\* --------------------------------------------- calls of emitted functions (C17)
\* The assignment statements of one statement of an encoder: itself, the
\* element assignment of a VLA block, the case bodies of a switch.
AssignmentsOf(st) ==
  CASE st.stmt = "vla" -> {st.body}
    [] st.stmt = "union_variant" -> {st.cases[i].body : i \in DOMAIN st.cases}
    [] st.stmt \in {"call", "memcpy", "assign"} -> {st}
    [] OTHER -> {}

\* The encoders the conversion file calls by name: from the bodies of the
\* encoders and from the allocation entry points.
EncoderCalls(conv) ==
  UNION {UNION {{a.fn : a \in {b \in AssignmentsOf(conv[i].body[k]) : b.stmt = "call"}} :
                k \in DOMAIN conv[i].body} :
         i \in {j \in DOMAIN conv : conv[j].item = "encoder"}}
  \cup {conv[i].encoder : i \in {j \in DOMAIN conv : conv[j].item = "alloc_fn"}}

\* The size functions the conversion file calls by name: in the length of
\* a VLA block and in the payloadSize of an allocation entry point.
SizeCalls(conv) ==
  UNION {{conv[i].body[k].size.ref :
            k \in {l \in DOMAIN conv[i].body :
                     /\ conv[i].body[l].stmt = "vla"
                     /\ conv[i].body[l].size.call = "sizeof_fn"}} :
         i \in {j \in DOMAIN conv : conv[j].item = "encoder"}}
  \cup {conv[i].payloadSize.ref :
          i \in {j \in DOMAIN conv : /\ conv[j].item = "alloc_fn"
                                     /\ conv[j].payloadSize.call = "sizeof_fn"}}

\* C17 as stated: every encoder and every size function the conversion
\* file of a run calls by name is emitted in that file; no encoder of a
\* union is called.
C17_Original ==
  conversion_file.written =>
    /\ \A t \in EncoderCalls(conversion_file.doc) :
          /\ HasItem(conversion_file.doc, "encoder", t)
          /\ ~structs_and_unions[t].is_union
    /\ \A t \in SizeCalls(conversion_file.doc) :
          HasItem(conversion_file.doc, "sizeof_fn", t)

\* --------------------------------------------------- member types (C18)
\* The members the header of the run declares, as (type, member line).
DeclLines ==
  UNION {{<<header_file.doc[i].type, header_file.doc[i].members[k]>> :
            k \in DOMAIN header_file.doc[i].members} :
         i \in {j \in DOMAIN header_file.doc : header_file.doc[j].item = "decl"}}

\* The annotations written for a field that can decide its type in the
\* header, in the order of the annotation document.
TypeDeciding(anns) ==
  SelectSeq(anns, LAMBDA a : a.annotation \in {"rewrite_type", "var_len_array"})

\* The type of member f of t in the header, read from the declarations and
\* the annotation document.
DeclaredHeaderType(t, f) ==
  LET deciding == TypeDeciding(Annotations(t, f))
      spec == DeclaredMember(t, f).type.type_spec
  IN IF deciding # <<>>
     THEN IF deciding[1].annotation = "rewrite_type"
          THEN [kind |-> "override", kw |-> "", ref |-> 0, base |-> deciding[1].type_override]
          ELSE [kind |-> "ChppOffset", kw |-> "struct", ref |-> 0, base |-> ""]
     ELSE IF spec.kw \in {"struct", "union"}
          THEN [kind |-> "chpp", kw |-> input.defs[spec.ref].kind, ref |-> spec.ref,
                base |-> IF HasAnnotation(Annotations(spec.ref, "."), "rename_type")
                         THEN "renamed" ELSE "Chpp"]
          ELSE [kind |-> "plain", kw |-> "", ref |-> 0, base |-> spec.base]

\* C18 as stated: a member that carries a rewrite_type annotation is
\* declared with the override, whatever else it carries and in whatever
\* order; without one a var_len_array member is declared as the offset and
\* length descriptor, else a nested member with the mapped name of its
\* type, else with its raw type.
C18_Original ==
  header_file.written =>
    \A l \in DeclLines :
      LET anns == Annotations(l[1], l[2].name)
      IN IF HasAnnotation(anns, "rewrite_type")
         THEN l[2].type.kind = "override"
         ELSE IF HasAnnotation(anns, "var_len_array")
              THEN l[2].type.kind = "ChppOffset"
              ELSE l[2].type = DeclaredHeaderType(l[1], l[2].name)

\* C18: every member the header declares has the type that the first
\* rewrite_type or var_len_array annotation in its annotation list gives it
\* (the override, or the offset and length descriptor); with neither, a
\* nested member has the mapped name of its type and any other member its
\* raw type.
C18_FirstInListDecides ==
  header_file.written =>
    \A l \in DeclLines : l[2].type = DeclaredHeaderType(l[1], l[2].name)

\* A header that declares as a descriptor a member that carries a
\* rewrite_type annotation after its var_len_array annotation.
C18_Witness ==
  /\ header_file.written
  /\ \E l \in DeclLines :
        /\ HasAnnotation(Annotations(l[1], l[2].name), "rewrite_type")
        /\ l[2].type.kind = "ChppOffset"

\* ------------------------------------------------ member handling (C19)
\* The kind of handling a statement of an encoder is.
HandlingOf(st) ==
  CASE st.stmt \in {"fixed_assign", "fixed_memset"} -> "fixed_value"
    [] st.stmt = "vla" -> "var_len_array"
    [] st.stmt = "union_variant" -> "union_variant"
    [] st.stmt \in {"assign", "memcpy", "call"} -> "default"

\* The handling the stated priority selects among the kinds of annotation
\* a member carries; "none" stands for no code.
PriorityHandling(anns) ==
  IF HasAnnotation(anns, "fixed_value") THEN "fixed_value"
  ELSE IF HasAnnotation(anns, "enum") THEN "none"
  ELSE IF HasAnnotation(anns, "var_len_array") THEN "var_len_array"
  ELSE IF HasAnnotation(anns, "union_variant") THEN "union_variant"
  ELSE "default"

\* The encoders of the conversion file of the run.
Encoders ==
  {conversion_file.doc[i] :
     i \in {j \in DOMAIN conversion_file.doc : conversion_file.doc[j].item = "encoder"}}

\* The statements an encoder holds for a field.
StatementsFor(e, f) == SelectSeq(e.body, LAMBDA st : st.field = f)

\* C19 as stated: in every encoder of a written conversion file a member
\* has the one handling that the priority fixed_value, enum (no code),
\* var_len_array, union_variant, default copy selects among the kinds of
\* its annotations.
C19_Original ==
  conversion_file.written =>
    \A e \in Encoders : \A f \in MemberNamesOf(e.type) :
      LET wanted == PriorityHandling(Annotations(e.type, f))
          sts == StatementsFor(e, f)
      IN IF wanted = "none" THEN sts = <<>>
         ELSE Len(sts) = 1 /\ HandlingOf(sts[1]) = wanted

\* C19: in every encoder of a written conversion file the statements are
\* one a member, in member order, and the statement of a member is what
\* the first fixed_value, var_len_array or union_variant annotation in its
\* annotation list asks for, the default copy when the list holds none of
\* the three (an enum annotation changes nothing); a fixed_value statement
\* writes the value of that annotation.
C19_FirstInListDecides ==
  conversion_file.written =>
    \A e \in Encoders :
      /\ Len(e.body) = Len(input.defs[e.type].members)
      /\ \A k \in DOMAIN e.body :
           LET f == input.defs[e.type].members[k].name
               first == DeclaredHandling(e.type, f)
           IN /\ e.body[k].field = f
              /\ HandlingOf(e.body[k]) = first.annotation
              /\ first.annotation = "fixed_value" => e.body[k].value = first.value
              /\ first.annotation = "var_len_array" =>
                   e.body[k].length_field = first.length_field

\* A written conversion file in which a member annotated var_len_array and
\* then fixed_value is encoded as an array, and one in which a member
\* annotated enum is copied.
C19_Witness ==
  /\ conversion_file.written
  /\ \E e \in Encoders : \E k \in DOMAIN e.body :
       LET anns == Annotations(e.type, e.body[k].field)
       IN \/ /\ HasAnnotation(anns, "fixed_value")
             /\ HandlingOf(e.body[k]) = "var_len_array"
          \/ /\ HasAnnotation(anns, "enum")
             /\ HandlingOf(e.body[k]) = "default"

\* ------------------------------------------------ cycles in the graph (C20)
\* A type the roots reach lies on a cycle of the declared dependencies.
CycleReached ==
  \E t \in Reached(input) : t \in ReachFrom(DeclaredDeps(t), DeclaredEdges)

\* C20 as stated: the traversal of the orderer returns only when no cycle
\* is reachable from a root.
C20_Original == sort.phase = "returned" => ~CycleReached

\* C20: on every graph the parser returns, cyclic or not, the traversal of
\* the orderer returns: its calls are never nested deeper than one more
\* than the number of types, and the list it returns holds exactly the
\* types the roots reach and is the list _sorted_structs gives.
C20_OrdererReturns ==
  /\ [](Len(sort.stack) <= NumTypes + 1)
  /\ [](sort.phase = "returned" =>
          /\ Range(sort.result) = Reached(input)
          /\ sort.result = _sorted_structs(structs_and_unions, input.root_structs))
  /\ (pc = "parsed" ~> sort.phase = "returned")

\* The orderer has returned for a graph with a cycle below a root, with a
\* type of the cycle in front of a type it depends on.
C20_Witness ==
  /\ sort.phase = "returned"
  /\ CycleReached
  /\ \E i, j \in DOMAIN sort.result :
       i < j /\ sort.result[j] \in DeclaredDeps(sort.result[i])

\* ------------------------------------------------ the payload cursor (C21)
\* The regions of the payload the blocks of a call have claimed, in the
\* order they claimed them.
Claimed == SelectSeq(Events, LAMBDA e : e.taken)

\* C21 as stated: in every call of an allocation entry point the cursor
\* starts at the static size of the root and after each block equals the
\* static size plus the lengths of the regions claimed so far; the claimed
\* regions are pairwise disjoint and lie between the static size and
\* payloadSize, whatever size the size function returned.
C21_Original ==
  Encoded =>
    /\ structs_and_unions[call.root].has_vla_member =>
         call.res.cursor = DeclaredSize(call.root)
    /\ \A i \in DOMAIN Events :
         Events[i].after =
           DeclaredSize(call.root)
             + SeqSum([j \in 1..i |-> IF Events[j].taken THEN Events[j].length ELSE 0])
    /\ \A i \in DOMAIN Claimed :
         /\ DeclaredSize(call.root) <= Claimed[i].before
         /\ Claimed[i].before + Claimed[i].length <= call.res.payloadSize
    /\ \A i, j \in DOMAIN Claimed :
         i < j => Claimed[i].before + Claimed[i].length <= Claimed[j].before

====
